---------------------------- MODULE Spec2Model ----------------------------
(***************************************************************************)
(* Overviewer: spreadsheet ingestion, reconciliation against the company   *)
(* store and the per-row enrichment pipeline (scrape, summarize, persist). *)
(*                                                                         *)
(* Text values are sequences of one-character strings, so that trim,       *)
(* lower-casing, the trailing-slash rule and the scheme prefix of the URL  *)
(* normalizer are computed character by character.  The JavaScript value   *)
(* undefined is the one-element sequence Undefined, whose element is no    *)
(* character of any text.                                                  *)
(***************************************************************************)
EXTENDS Integers, Sequences, FiniteSets, TLC

--------------------------------------------------------------------------
(* Text primitives (JavaScript String semantics).                         *)

Undefined == <<"undefined">>

\* JavaScript truthiness of an optional string: undefined and '' are falsy.
Truthy(s) == s # Undefined /\ s # <<>>

IsSpace(c) == c = " "

\* String.prototype.toLowerCase on one character of the alphabet in use.
LowerChar(c) ==
  CASE c = "A" -> "a"
    [] c = "B" -> "b"
    [] c = "C" -> "c"
    [] c = "F" -> "f"
    [] c = "H" -> "h"
    [] c = "P" -> "p"
    [] c = "S" -> "s"
    [] c = "T" -> "t"
    [] c = "U" -> "u"
    [] c = "W" -> "w"
    [] OTHER -> c

toLowerCase(s) == [i \in 1..Len(s) |-> LowerChar(s[i])]

RECURSIVE trimStart(_)
trimStart(s) == IF s # <<>> /\ IsSpace(Head(s)) THEN trimStart(Tail(s)) ELSE s

RECURSIVE trimEnd(_)
trimEnd(s) ==
  IF s # <<>> /\ IsSpace(s[Len(s)]) THEN trimEnd(SubSeq(s, 1, Len(s) - 1)) ELSE s

trim(s) == trimEnd(trimStart(s))

startsWith(s, p) == Len(s) >= Len(p) /\ SubSeq(s, 1, Len(p)) = p

endsWith(s, p) == Len(s) >= Len(p) /\ SubSeq(s, Len(s) - Len(p) + 1, Len(s)) = p

\* Array.prototype.indexOf, zero-based, -1 when absent.
indexOf(arr, x) ==
  IF \E i \in 1..Len(arr) : arr[i] = x
  THEN (CHOOSE i \in 1..Len(arr) : arr[i] = x /\ \A j \in 1..(i - 1) : arr[j] # x) - 1
  ELSE -1

\* arr[idx] with a zero-based index; out of range reads undefined.
At(arr, idx) == IF idx >= 0 /\ idx < Len(arr) THEN arr[idx + 1] ELSE Undefined

HttpPrefix == <<"h", "t", "t", "p", ":", "/", "/">>
HttpsPrefix == <<"h", "t", "t", "p", "s", ":", "/", "/">>

RECURSIVE skipSlashes(_)
skipSlashes(s) == IF s # <<>> /\ Head(s) = "/" THEN skipSlashes(Tail(s)) ELSE s

RECURSIVE takeUntil(_, _)
takeUntil(s, c) ==
  IF s = <<>> \/ Head(s) = c THEN <<>> ELSE <<Head(s)>> \o takeUntil(Tail(s), c)

\* new URL(s) for s that starts with http:// or https://: leading and
\* trailing spaces of the input are removed, the scheme is special, every
\* slash after the colon is skipped, the authority runs to the next slash,
\* the host name runs to the first colon and must be non-empty and free of
\* forbidden host code points (here: the space), and a port must be made of
\* digits (the alphabet has none, so a port must be empty).
UrlParses(s) ==
  LET input == trim(s)
      afterScheme == IF startsWith(input, HttpsPrefix)
                     THEN SubSeq(input, Len(HttpsPrefix) + 1, Len(input))
                     ELSE SubSeq(input, Len(HttpPrefix) + 1, Len(input))
      authority == takeUntil(skipSlashes(afterScheme), "/")
      hostname == takeUntil(authority, ":")
      port == SubSeq(authority, Len(hostname) + 2, Len(authority))
  IN /\ hostname # <<>>
     /\ \A i \in 1..Len(hostname) : ~IsSpace(hostname[i])
     /\ port = <<>>

\* As normalizeUrl, without toLowerCase.
normalizeUrl_KeepsCase(url) ==
  IF url = Undefined \/ trim(url) = <<>>
  THEN Undefined
  ELSE LET lowered == trim(url)
           stripped == IF endsWith(lowered, <<"/">>)
                       THEN SubSeq(lowered, 1, Len(lowered) - 1)
                       ELSE lowered
           schemed == IF ~startsWith(stripped, HttpPrefix) /\ ~startsWith(stripped, HttpsPrefix)
                      THEN HttpsPrefix \o stripped
                      ELSE stripped
       IN IF UrlParses(schemed) THEN schemed ELSE Undefined

\* normalizeUrl (client) and normalizeUrlInternal (functions) are the same text.
normalizeUrl(url) ==
  IF url = Undefined \/ trim(url) = <<>>
  THEN Undefined
  ELSE LET lowered == toLowerCase(trim(url))
           stripped == IF endsWith(lowered, <<"/">>)
                       THEN SubSeq(lowered, 1, Len(lowered) - 1)
                       ELSE lowered
           schemed == IF ~startsWith(stripped, HttpPrefix) /\ ~startsWith(stripped, HttpsPrefix)
                      THEN HttpsPrefix \o stripped
                      ELSE stripped
       IN IF UrlParses(schemed) THEN schemed ELSE Undefined

normalizeUrlInternal(url) == normalizeUrl(url)

--------------------------------------------------------------------------
(* Data of the model: cell texts, sheets, summaries, store records.       *)

MaxRows == 3

SixMonths == 6

Acme == <<"A", "c", "m", "e">>
acme == <<"a", "c", "m", "e">>
US == <<"U", "S">>
Blank == <<>>
Spaces == <<" ">>
SiteBare == <<"A", "b", ".", "c", "/">>
SiteUpper == <<"H", "T", "T", "P", "S", ":", "/", "/", "A", "B", ".", "C">>
SiteBad == <<"a", " ", "b">>

HeaderRow == <<"Company", "Country", "Website">>

\* Data rows a sheet is built from: cells in the order of HeaderRow.
RowCatalog ==
  { <<Acme, US, SiteBare>>,
    <<Acme, US, SiteBad>> }

RECURSIVE SeqsUpTo(_, _)
SeqsUpTo(S, n) ==
  IF n = 0 THEN {<<>>}
  ELSE LET shorter == SeqsUpTo(S, n - 1)
       IN shorter \cup {Append(q, x) : q \in shorter, x \in S}

\* parseXLSX results: a sheet without any row (no header), or HeaderRow
\* followed by up to MaxRows data rows.
Sheets ==
  {[headers |-> <<>>, data |-> <<>>]}
    \cup {[headers |-> HeaderRow, data |-> d] : d \in SeqsUpTo(RowCatalog, MaxRows)}

\* detectHeaders output: a header of the sheet, '' (not detected), or a
\* header the sheet does not have.
HeaderMappings ==
  { [companyName |-> "Company", country |-> "Country", website |-> "Website"],
    [companyName |-> "", country |-> "Country", website |-> "Website"],
    [companyName |-> "Company", country |-> "", website |-> "Site"] }

UNUSABLE_CONTENT_RESPONSE == <<"u", "n", "u", "s", "a", "b", "l", "e">>
Overview == <<"o", "k">>
Yes == <<"Y", "e", "s">>

NoMetadata ==
  [summary |-> Undefined, independenceCriteria |-> Undefined,
   insufficientInformation |-> Undefined]

MetadataValues ==
  { [summary |-> Overview, independenceCriteria |-> Yes, insufficientInformation |-> <<>>],
    [summary |-> UNUSABLE_CONTENT_RESPONSE, independenceCriteria |-> <<>>,
     insufficientInformation |-> Yes] }

--------------------------------------------------------------------------
(* functions/src/index.ts: the company store and its two callables.       *)
(* A store is the sequence of the documents of collection 'companies' in  *)
(* the order they were added.  Time is counted in months.                 *)

\* company.companyName ? company.companyName.trim().toLowerCase() : null
normText(s) == IF Truthy(s) THEN toLowerCase(trim(s)) ELSE Undefined

\* company.website ? normalizeUrlInternal(company.website) : null
normSite(s) == IF Truthy(s) THEN normalizeUrlInternal(s) ELSE Undefined

\* where('timestamp', '>=', sixMonthsAgoTimestamp)
withinSixMonths(doc, now) == doc.timestamp >= now - SixMonths

\* As matchCount, without the test that the field is present on the query.
matchCount_NoPresence(doc, normName, normCountry, normWebsite) ==
  (IF doc.normalizedCompanyName = normName THEN 1 ELSE 0)
  + (IF doc.normalizedCountry = normCountry THEN 1 ELSE 0)
  + (IF doc.website = normWebsite THEN 1 ELSE 0)

matchCount(doc, normName, normCountry, normWebsite) ==
  (IF Truthy(normName) /\ doc.normalizedCompanyName = normName THEN 1 ELSE 0)
  + (IF Truthy(normCountry) /\ doc.normalizedCountry = normCountry THEN 1 ELSE 0)
  + (IF Truthy(normWebsite) /\ doc.website = normWebsite THEN 1 ELSE 0)

\* The documents the (up to three) equality queries return, by position.
potentialDocsFromQueries(store, now, normName, normCountry, normWebsite) ==
  { k \in 1..Len(store) :
      /\ withinSixMonths(store[k], now)
      /\ \/ Truthy(normName) /\ store[k].normalizedCompanyName = normName
         \/ Truthy(normCountry) /\ store[k].normalizedCountry = normCountry
         \/ Truthy(normWebsite) /\ store[k].website = normWebsite }

ErrorText == <<"e", "r", "r">>

\* One iteration of the loop over data.companies: the set of results it can
\* push (the order of the candidate documents is the store's, not the code's,
\* so any qualifying document can be the first one found).  queryThrows is
\* whether the store query of this company rejects.
checkCompany(store, now, company, queryThrows) ==
  LET normName == normText(company.companyName)
      normCountry == normText(company.country)
      normWebsite == normSite(company.website)
      candidates == potentialDocsFromQueries(store, now, normName, normCountry, normWebsite)
      qualifying == { k \in candidates :
                        matchCount(store[k], normName, normCountry, normWebsite) >= 2 }
      unmatched == [originalIndex |-> company.originalIndex, matched |-> FALSE,
                    metadata |-> NoMetadata, error |-> Undefined]
  IN IF ~Truthy(normName) /\ ~Truthy(normCountry) /\ ~Truthy(normWebsite)
     THEN {unmatched}
     ELSE IF queryThrows
     THEN {[unmatched EXCEPT !.error = ErrorText]}
     ELSE IF qualifying = {}
     THEN {unmatched}
     ELSE { [originalIndex |-> company.originalIndex, matched |-> TRUE,
             metadata |-> store[k].metadata, error |-> Undefined] : k \in qualifying }

\* As checkForExistingCompanies, but a rejected store query ends the loop:
\* the companies after it get no lookup and are reported with the error.
checkForExistingCompanies_Aborts(store, now, companies, failing) ==
  LET n == Len(companies)
      stopped(k) == \E j \in 1..k : companies[j].originalIndex \in failing
      possible(k) ==
        IF stopped(k)
        THEN {[originalIndex |-> companies[k].originalIndex, matched |-> FALSE,
               metadata |-> NoMetadata, error |-> ErrorText]}
        ELSE checkCompany(store, now, companies[k], FALSE)
  IN { r \in [1..n -> UNION {possible(k) : k \in 1..n}] : \A k \in 1..n : r[k] \in possible(k) }

\* checkForExistingCompanies: the set of result arrays the call can return;
\* failing is the set of originalIndex values whose store query rejects.
RECURSIVE checkForExistingCompanies(_, _, _, _)
checkForExistingCompanies(store, now, companies, failing) ==
  IF companies = <<>> THEN {<<>>}
  ELSE { <<r>> \o rest :
           r \in checkCompany(store, now, Head(companies),
                              Head(companies).originalIndex \in failing),
           rest \in checkForExistingCompanies(store, now, Tail(companies), failing) }

\* The document saveCompanyEntry adds for data at time now: a normalized
\* field is set only when it is truthy.
companyData(data, now) ==
  LET present(v) == IF Truthy(v) THEN v ELSE Undefined
      orEmpty(v) == IF Truthy(v) THEN v ELSE <<>>
  IN [normalizedCompanyName |-> present(normText(data.companyName)),
      normalizedCountry |-> present(normText(data.country)),
      website |-> present(normalizeUrlInternal(data.website)),
      metadata |-> [summary |-> orEmpty(data.metadata.summary),
                    independenceCriteria |-> orEmpty(data.metadata.independenceCriteria),
                    insufficientInformation |-> orEmpty(data.metadata.insufficientInformation)],
      timestamp |-> now]

--------------------------------------------------------------------------
(* src/app/page.tsx: pure parts of processFile, handleExportResults and   *)
(* handleAutoProcess.                                                     *)

Null == [null |-> TRUE]

\* mappedHeader ? rawHeaders.indexOf(mappedHeader) : -1
headerIdx(headers, mapped) == IF mapped # "" THEN indexOf(headers, mapped) ELSE -1

\* idx !== -1 && row[idx] ? String(row[idx]).trim() : undefined
cellText(row, idx) ==
  IF idx # -1 /\ Truthy(At(row, idx)) THEN trim(At(row, idx)) ELSE Undefined

companiesToCheck(sheet, mapped) ==
  LET nameIdx == headerIdx(sheet.headers, mapped.companyName)
      countryIdx == headerIdx(sheet.headers, mapped.country)
      siteIdx == headerIdx(sheet.headers, mapped.website)
  IN [k \in 1..Len(sheet.data) |->
        [originalIndex |-> k - 1,
         companyName |-> cellText(sheet.data[k], nameIdx),
         country |-> cellText(sheet.data[k], countryIdx),
         website |-> cellText(sheet.data[k], siteIdx)]]

\* As noMatches, every company reported as matched.
noMatches_AllMatched(companies) ==
  [k \in 1..Len(companies) |->
     [originalIndex |-> companies[k].originalIndex, matched |-> TRUE,
      metadata |-> NoMetadata, error |-> Undefined]]

\* companiesToCheck.map(c => ({ originalIndex: c.originalIndex, matched: false }))
noMatches(companies) ==
  [k \in 1..Len(companies) |->
     [originalIndex |-> companies[k].originalIndex, matched |-> FALSE,
      metadata |-> NoMetadata, error |-> Undefined]]

\* The value of companyMatchResults when the table is built: nothing when no
\* company was sent, every company unmatched when the call rejected, the
\* results of the call otherwise.
companyMatchResults(companies, outcome) ==
  IF Len(companies) = 0 THEN <<>>
  ELSE IF outcome.threw THEN noMatches(companies)
  ELSE outcome.results

\* As matchInfo, but taking the result at the position of the row.
matchInfo_ByPosition(results, index) ==
  IF index + 1 <= Len(results)
  THEN results[index + 1]
  ELSE [originalIndex |-> index, matched |-> FALSE, metadata |-> NoMetadata,
        error |-> Undefined]

\* new Map(results.map(r => [r.originalIndex, r])).get(index): the last
\* result carrying the index, or no match information at all.
matchInfo(results, index) ==
  LET hits == {k \in 1..Len(results) : results[k].originalIndex = index}
  IN IF hits = {}
     THEN [originalIndex |-> index, matched |-> FALSE, metadata |-> NoMetadata,
           error |-> Undefined]
     ELSE results[CHOOSE k \in hits : \A j \in hits : j <= k]

\* As hasErrorOf, without the test of the website.
hasErrorOf_NameOnly(companyNameVal, normalizedWebsite) == ~Truthy(companyNameVal)

\* As hasErrorOf, without the test of the company name.
hasErrorOf_WebsiteOnly(companyNameVal, normalizedWebsite) == ~Truthy(normalizedWebsite)

hasErrorOf(companyNameVal, normalizedWebsite) ==
  ~Truthy(companyNameVal) \/ ~Truthy(normalizedWebsite)

\* As processingStatusOf, but Fetched for every result without error.
processingStatusOf_Unfailed(info) ==
  IF info.error = Undefined THEN "Fetched" ELSE "To Process"

processingStatusOf(info) == IF info.matched THEN "Fetched" ELSE "To Process"

\* One element of tableData, built from data row k (one-based) of the sheet.
tableRow(sheet, mapped, results, k) ==
  LET row == sheet.data[k]
      nameIdx == headerIdx(sheet.headers, mapped.companyName)
      siteIdx == headerIdx(sheet.headers, mapped.website)
      companyNameVal == cellText(row, nameIdx)
      websiteVal == cellText(row, siteIdx)
      normalizedWebsite == normalizeUrl(websiteVal)
      displayRowValues ==
        IF /\ siteIdx # -1
           /\ Truthy(normalizedWebsite)
           /\ normalizedWebsite # toLowerCase(trim(At(row, siteIdx)))
        THEN [row EXCEPT ![siteIdx + 1] = normalizedWebsite]
        ELSE row
      info == matchInfo(results, k - 1)
  IN [id |-> k - 1,
      values |-> displayRowValues,
      hasError |-> hasErrorOf(companyNameVal, normalizedWebsite),
      processingStatus |-> processingStatusOf(info),
      summary |-> info.metadata.summary,
      independenceCriteria |-> info.metadata.independenceCriteria,
      insufficientInformation |-> info.metadata.insufficientInformation]

\* As tableData, without the rows that have an error.
tableData_DropsErrors(sheet, mapped, results) ==
  SelectSeq([k \in 1..Len(sheet.data) |-> tableRow(sheet, mapped, results, k)],
            LAMBDA row : ~row.hasError)

tableData(sheet, mapped, results) ==
  [k \in 1..Len(sheet.data) |-> tableRow(sheet, mapped, results, k)]

isEligible_IgnoresError(row) == row.processingStatus = "To Process"

\* The filter of rowsToProcessInitially, negated in the map callback.
isEligible(row) == row.processingStatus = "To Process" /\ ~row.hasError

\* Indices (one-based) kept by tableData.filter(row => !row.hasError).
exportable(table) == {k \in 1..Len(table) : ~table[k].hasError}

RECURSIVE filterRows(_, _)
filterRows(table, keep) ==
  IF table = <<>> THEN <<>>
  ELSE (IF Len(table) \in keep THEN filterRows(SubSeq(table, 1, Len(table) - 1), keep)
                                      \o <<table[Len(table)]>>
        ELSE filterRows(SubSeq(table, 1, Len(table) - 1), keep))

orEmptyText(v) == IF Truthy(v) THEN v ELSE <<>>

\* As exportableData, but numbering each record by the position of its row
\* in the table.
exportableData_OriginalIndex(pd) ==
  LET nameIdx == headerIdx(pd.originalHeaders, pd.mappedHeaders.companyName)
      countryIdx == headerIdx(pd.originalHeaders, pd.mappedHeaders.country)
      siteIdx == headerIdx(pd.originalHeaders, pd.mappedHeaders.website)
      kept == filterRows(pd.tableData, exportable(pd.tableData))
  IN [n \in 1..Len(kept) |->
        [sno |-> kept[n].id + 1,
         rowId |-> kept[n].id,
         companyName |-> IF nameIdx # -1 THEN orEmptyText(At(kept[n].values, nameIdx)) ELSE <<>>,
         country |-> IF countryIdx # -1 THEN orEmptyText(At(kept[n].values, countryIdx)) ELSE <<>>,
         website |-> IF siteIdx # -1 THEN orEmptyText(At(kept[n].values, siteIdx)) ELSE <<>>,
         overview |-> orEmptyText(kept[n].summary),
         independenceCriteria |-> orEmptyText(kept[n].independenceCriteria),
         insufficientInformation |-> orEmptyText(kept[n].insufficientInformation)]]

\* exportableData of handleExportResults.
exportableData(pd) ==
  LET nameIdx == headerIdx(pd.originalHeaders, pd.mappedHeaders.companyName)
      countryIdx == headerIdx(pd.originalHeaders, pd.mappedHeaders.country)
      siteIdx == headerIdx(pd.originalHeaders, pd.mappedHeaders.website)
      kept == filterRows(pd.tableData, exportable(pd.tableData))
  IN [n \in 1..Len(kept) |->
        [sno |-> n,
         \* rowId is no column of the file: it records the table row projected.
         rowId |-> kept[n].id,
         companyName |-> IF nameIdx # -1 THEN orEmptyText(At(kept[n].values, nameIdx)) ELSE <<>>,
         country |-> IF countryIdx # -1 THEN orEmptyText(At(kept[n].values, countryIdx)) ELSE <<>>,
         website |-> IF siteIdx # -1 THEN orEmptyText(At(kept[n].values, siteIdx)) ELSE <<>>,
         overview |-> orEmptyText(kept[n].summary),
         independenceCriteria |-> orEmptyText(kept[n].independenceCriteria),
         insufficientInformation |-> orEmptyText(kept[n].insufficientInformation)]]

hasExportableData(pd) == \E k \in 1..Len(pd.tableData) : ~pd.tableData[k].hasError

--------------------------------------------------------------------------
(* Responses of the remote callables.                                     *)

Content == <<"t", "e", "x", "t">>

\* scrape_website_content: rejects, or resolves with a status and content.
ScrapeResponses ==
  { [threw |-> TRUE, status |-> "error", content |-> Undefined],
    [threw |-> FALSE, status |-> "failed_fetch", content |-> Undefined],
    [threw |-> FALSE, status |-> "success", content |-> <<>>],
    [threw |-> FALSE, status |-> "success", content |-> Content] }

\* summarizeCompanyContent: rejects, or resolves with a status and the fields.
SummarizeResponses ==
  { [threw |-> TRUE, status |-> "error", summary |-> Undefined,
     independenceCriteria |-> Undefined, insufficientInformation |-> Undefined],
    [threw |-> FALSE, status |-> "error", summary |-> Undefined,
     independenceCriteria |-> Undefined, insufficientInformation |-> Undefined],
    [threw |-> FALSE, status |-> "success", summary |-> <<>>,
     independenceCriteria |-> <<>>, insufficientInformation |-> <<>>] }
  \cup { [threw |-> FALSE, status |-> "success", summary |-> m.summary,
          independenceCriteria |-> m.independenceCriteria,
          insufficientInformation |-> m.insufficientInformation] : m \in MetadataValues }

\* The responses to the summarize call of row k: any failure, or the
\* summary of the content of that row's site.  The sites of neighbouring
\* rows have different summaries: the overview for the rows at odd
\* positions, the unusable-content answer for those at even positions.
SummarizeResponsesFor(k) ==
  { r \in SummarizeResponses :
      Truthy(r.summary) => (r.summary = Overview <=> k % 2 = 1) }

NoResponse == [threw |-> FALSE, status |-> "none"]

\* Store contents the reconciliation call can meet: documents written by
\* saveCompanyEntry at month 0 for a full identity and for one without country.
StoreDocs ==
  { companyData([companyName |-> Acme, country |-> US, website |-> SiteBare, metadata |-> m], 0)
      : m \in MetadataValues }
  \cup { companyData([companyName |-> Acme, country |-> Undefined, website |-> SiteUpper,
                      metadata |-> CHOOSE m \in MetadataValues : m.summary = Overview], 0) }

StoreSnapshots == SeqsUpTo(StoreDocs, 2)

\* The month of the call: the documents of month 0 are inside or outside the window.
CallTimes == {SixMonths, SixMonths + 1}

--------------------------------------------------------------------------
(* State.                                                                 *)

VARIABLES
  file,              \* useState: the selected file (its sheet), or Null
  isLoading,         \* useState
  isExporting,       \* useState
  isAutoProcessing,  \* useState
  error,             \* useState: '' stands for null
  processedData,     \* useState: Null or [originalHeaders, mappedHeaders, tableData]
  toasts,            \* the notifications of the latest operation, in order
  written,           \* the file the latest operation wrote with XLSX.writeFile, or Null
  pfPc,              \* where processFile is suspended: idle, parseXLSX, detectHeaders, check
  detectedHeaders,   \* processFile: the header mapping, or Null
  fileCalls,         \* processFile: the calls made for the selected file, in order
  rowPc,             \* handleAutoProcess, per row: none, scrape, summarize, save, returned
  scrapeResult,      \* handleAutoProcess, per row: the scrape response
  summarizeResult,   \* handleAutoProcess, per row: the summarize response
  saveResult,        \* handleAutoProcess, per row: the outcome of the save call
  newRow,            \* handleAutoProcess, per row: the value its promise resolved with
  successCount,      \* handleAutoProcess
  errorCount,        \* handleAutoProcess
  calls,             \* per row: the remote calls of the latest run, in order
  db,                \* functions: the documents of collection 'companies', in order of creation
  clock,             \* functions: the current month
  request,           \* functions: the data of the latest call, or Null
  response           \* functions: what the latest call returned or threw, or Null

vars ==
  <<file, isLoading, isExporting, isAutoProcessing, error, processedData, toasts, written,
    pfPc, detectedHeaders, fileCalls, rowPc, scrapeResult, summarizeResult, saveResult, newRow,
    successCount, errorCount, calls, db, clock, request, response>>

clientVars ==
  <<file, isLoading, isExporting, isAutoProcessing, error, processedData, toasts, written,
    pfPc, detectedHeaders, fileCalls, rowPc, scrapeResult, summarizeResult, saveResult, newRow,
    successCount, errorCount, calls>>

serverVars == <<db, clock, request, response>>

sessionVars == <<file, isLoading, isExporting, isAutoProcessing, error, processedData>>
fileVars == <<pfPc, detectedHeaders, fileCalls>>
runVars ==
  <<rowPc, scrapeResult, summarizeResult, saveResult, newRow, successCount, errorCount, calls>>

Toast(title, description) == [title |-> title, description |-> description]

NoRun ==
  /\ rowPc = <<>>
  /\ scrapeResult = <<>>
  /\ summarizeResult = <<>>
  /\ saveResult = <<>>
  /\ newRow = <<>>
  /\ successCount = 0
  /\ errorCount = 0
  /\ calls = <<>>

\* The locals of handleAutoProcess are out of scope.
clearRun ==
  /\ rowPc' = <<>>
  /\ scrapeResult' = <<>>
  /\ summarizeResult' = <<>>
  /\ saveResult' = <<>>
  /\ newRow' = <<>>
  /\ successCount' = 0
  /\ errorCount' = 0
  /\ calls' = <<>>

InitClient ==
  /\ file = Null
  /\ isLoading = FALSE
  /\ isExporting = FALSE
  /\ isAutoProcessing = FALSE
  /\ error = ""
  /\ processedData = Null
  /\ toasts = <<>>
  /\ written = Null
  /\ pfPc = "idle"
  /\ detectedHeaders = Null
  /\ fileCalls = <<>>
  /\ NoRun

InitServer ==
  /\ db = <<>>
  /\ clock = 0
  /\ request = Null
  /\ response = Null

Init == InitClient /\ InitServer

--------------------------------------------------------------------------
(* processFile, one action per suspension point.                          *)

\* A call of a library function or remote callable with its argument.
Call(fn, arg) == [fn |-> fn, arg |-> arg]

\* The catch block followed by the finally block of processFile.
processFileCatch ==
  /\ error' = "Processing error"
  /\ toasts' = Append(toasts, Toast("Processing Error", <<>>))
  /\ isLoading' = FALSE
  /\ pfPc' = "idle"
  /\ detectedHeaders' = Null
  /\ UNCHANGED <<file, isExporting, isAutoProcessing, processedData, written, fileCalls>>
  /\ UNCHANGED runVars

\* From the construction of companyResultsMap to the finally block.
processFileFinish(mapped, results, warned) ==
  /\ processedData' = [originalHeaders |-> file.headers,
                       mappedHeaders |-> mapped,
                       tableData |-> tableData(file, mapped, results)]
  /\ toasts' = (IF warned THEN Append(toasts, Toast("Database Check Error", <<>>)) ELSE toasts)
                 \o <<Toast("File Processed", <<>>)>>
  /\ isLoading' = FALSE
  /\ pfPc' = "idle"
  /\ detectedHeaders' = Null
  /\ UNCHANGED <<file, isExporting, isAutoProcessing, error, written, fileCalls>>
  /\ UNCHANGED runVars

\* FileUploadArea is rendered only when !processedData && !isLoading && !error.
uploadAreaShown == processedData = Null /\ ~isLoading /\ error = ""

\* setFile and processFile up to the await of parseXLSX.
processFile(selectedFile) ==
  /\ file' = selectedFile
  /\ isLoading' = TRUE
  /\ error' = ""
  /\ processedData' = Null
  /\ toasts' = <<>>
  /\ written' = Null
  /\ pfPc' = "parseXLSX"
  /\ fileCalls' = <<Call("parseXLSX", selectedFile)>>
  /\ UNCHANGED <<isExporting, isAutoProcessing, detectedHeaders>>
  /\ UNCHANGED runVars
  /\ UNCHANGED serverVars

\* handleFileSelect: the user drops a file on the upload area.
handleFileSelect ==
  \E selectedFile \in Sheets :
    /\ uploadAreaShown
    /\ processFile(selectedFile)

\* As parseXLSXReturns, without the test of rawHeaders.length.
parseXLSXReturns_NoHeaderCheck ==
  \E rejects \in BOOLEAN :
    /\ pfPc = "parseXLSX"
    /\ IF rejects
       THEN processFileCatch
       ELSE /\ pfPc' = "detectHeaders"
            /\ fileCalls' = Append(fileCalls, Call("detectHeaders", file.headers))
            /\ UNCHANGED <<sessionVars, toasts, written, detectedHeaders>>
            /\ UNCHANGED runVars
    /\ UNCHANGED serverVars

\* As parseXLSXReturns, but the return for a sheet without headers leaves
\* isLoading as it is.
parseXLSXReturns_KeepsLoading ==
  \E rejects \in BOOLEAN :
    /\ pfPc = "parseXLSX"
    /\ IF rejects
       THEN processFileCatch
       ELSE IF Len(file.headers) = 0
       THEN /\ error' = "The uploaded file seems to be empty"
            /\ pfPc' = "idle"
            /\ UNCHANGED <<file, isLoading, isExporting, isAutoProcessing, processedData, toasts,
                           written, detectedHeaders, fileCalls>>
            /\ UNCHANGED runVars
       ELSE /\ pfPc' = "detectHeaders"
            /\ fileCalls' = Append(fileCalls, Call("detectHeaders", file.headers))
            /\ UNCHANGED <<sessionVars, toasts, written, detectedHeaders>>
            /\ UNCHANGED runVars
    /\ UNCHANGED serverVars

\* parseXLSX settles: it rejects, or resolves with the sheet.
parseXLSXReturns ==
  \E rejects \in BOOLEAN :
    /\ pfPc = "parseXLSX"
    /\ IF rejects
       THEN processFileCatch
       ELSE IF Len(file.headers) = 0
       THEN /\ error' = "The uploaded file seems to be empty"
            /\ isLoading' = FALSE
            /\ pfPc' = "idle"
            /\ UNCHANGED <<file, isExporting, isAutoProcessing, processedData, toasts, written,
                           detectedHeaders, fileCalls>>
            /\ UNCHANGED runVars
       ELSE /\ pfPc' = "detectHeaders"
            /\ fileCalls' = Append(fileCalls, Call("detectHeaders", file.headers))
            /\ UNCHANGED <<sessionVars, toasts, written, detectedHeaders>>
            /\ UNCHANGED runVars
    /\ UNCHANGED serverVars

\* detectHeaders settles: it rejects, or resolves with a mapping.  With no
\* data row the reconciliation call is skipped and the table is built at once.
detectHeadersReturns ==
  /\ pfPc = "detectHeaders"
  /\ \/ processFileCatch
     \/ \E mapped \in HeaderMappings :
          IF Len(companiesToCheck(file, mapped)) > 0
          THEN /\ detectedHeaders' = mapped
               /\ pfPc' = "check"
               /\ fileCalls' = Append(fileCalls, Call("checkForExistingCompanies",
                                                      companiesToCheck(file, mapped)))
               /\ UNCHANGED <<sessionVars, toasts, written>>
               /\ UNCHANGED runVars
          ELSE processFileFinish(mapped, <<>>, FALSE)
  /\ UNCHANGED serverVars

\* As checkReturns, but a rejected call is issued once more before the
\* degraded table is built.
checkReturns_Retries ==
  /\ pfPc = "check"
  /\ LET companies == companiesToCheck(file, detectedHeaders)
     IN \/ IF Len(fileCalls) < 4
           THEN /\ fileCalls' = Append(fileCalls, Call("checkForExistingCompanies", companies))
                /\ UNCHANGED <<sessionVars, toasts, written, pfPc, detectedHeaders>>
                /\ UNCHANGED runVars
           ELSE processFileFinish(detectedHeaders, noMatches(companies), TRUE)
        \/ \E store \in StoreSnapshots, now \in CallTimes,
              failing \in SUBSET {c.originalIndex : c \in {companies[k] : k \in 1..Len(companies)}} :
             \E results \in checkForExistingCompanies(store, now, companies, failing) :
               processFileFinish(detectedHeaders, results, FALSE)
  /\ UNCHANGED serverVars

\* checkForExistingCompaniesCallable settles: it rejects (warning toast, every
\* company unmatched), or resolves with the results the function computes on
\* the store as it is at the time of the call.
checkReturns ==
  /\ pfPc = "check"
  /\ LET companies == companiesToCheck(file, detectedHeaders)
     IN \/ processFileFinish(detectedHeaders, noMatches(companies), TRUE)
        \/ \E store \in StoreSnapshots, now \in CallTimes,
              failing \in SUBSET {c.originalIndex : c \in {companies[k] : k \in 1..Len(companies)}} :
             \E results \in checkForExistingCompanies(store, now, companies, failing) :
               processFileFinish(detectedHeaders, results, FALSE)
  /\ UNCHANGED serverVars

\* As handleProcessAnotherFile, with a button that is never disabled.
handleProcessAnotherFile_NeverDisabled ==
  /\ processedData # Null /\ ~isLoading
  /\ file' = Null
  /\ processedData' = Null
  /\ error' = ""
  /\ isLoading' = FALSE
  /\ isExporting' = FALSE
  /\ isAutoProcessing' = FALSE
  /\ clearRun
  /\ detectedHeaders' = Null
  /\ fileCalls' = <<>>
  /\ toasts' = <<>>
  /\ written' = Null
  /\ UNCHANGED pfPc
  /\ UNCHANGED serverVars

\* handleProcessAnotherFile; the button is rendered with the table and is
\* disabled while isAutoProcessing || isLoading.  The locals of the finished
\* runs are out of scope by then.
handleProcessAnotherFile ==
  /\ processedData # Null /\ ~isLoading
  /\ ~(isAutoProcessing \/ isLoading)
  /\ file' = Null
  /\ processedData' = Null
  /\ error' = ""
  /\ isLoading' = FALSE
  /\ isExporting' = FALSE
  /\ isAutoProcessing' = FALSE
  /\ clearRun
  /\ detectedHeaders' = Null
  /\ fileCalls' = <<>>
  /\ toasts' = <<>>
  /\ written' = Null
  /\ UNCHANGED pfPc
  /\ UNCHANGED serverVars

\* As exportResults, but an empty selection is treated as a failed export.
exportResults_EmptyIsError(writeThrows) ==
  /\ processedData # Null
  /\ LET data == exportableData(processedData)
     IN IF Len(data) = 0 \/ writeThrows
        THEN /\ toasts' = <<Toast("Export Error", <<>>)>>
             /\ error' = "Export error"
             /\ written' = Null
        ELSE /\ toasts' = <<Toast("Export Successful", <<>>)>>
             /\ written' = [records |-> data]
             /\ UNCHANGED error
  /\ isExporting' = FALSE
  /\ UNCHANGED <<file, isLoading, isAutoProcessing, processedData>>
  /\ UNCHANGED fileVars
  /\ UNCHANGED runVars

\* As exportResults, but the headers are mapped again for the export.
exportResults_RemapsHeaders(writeThrows) ==
  /\ processedData # Null
  /\ LET data == exportableData(processedData)
     IN IF Len(data) = 0
        THEN /\ toasts' = <<Toast("No Data to Export", <<>>)>>
             /\ written' = Null
             /\ UNCHANGED error
        ELSE IF writeThrows
        THEN /\ toasts' = <<Toast("Export Error", <<>>)>>
             /\ error' = "Export error"
             /\ written' = Null
        ELSE /\ toasts' = <<Toast("Export Successful", <<>>)>>
             /\ written' = [records |-> data]
             /\ UNCHANGED error
  /\ isExporting' = FALSE
  /\ fileCalls' = IF Len(fileCalls) < 4
                  THEN Append(fileCalls, Call("detectHeaders", processedData.originalHeaders))
                  ELSE fileCalls
  /\ UNCHANGED <<file, isLoading, isAutoProcessing, processedData>>
  /\ UNCHANGED <<pfPc, detectedHeaders>>
  /\ UNCHANGED runVars

\* The body of handleExportResults, which runs synchronously to its end:
\* isExporting is true inside it only.  XLSX.writeFile can throw.
exportResults(writeThrows) ==
  /\ processedData # Null
  /\ LET data == exportableData(processedData)
     IN IF Len(data) = 0
        THEN /\ toasts' = <<Toast("No Data to Export", <<>>)>>
             /\ written' = Null
             /\ UNCHANGED error
        ELSE IF writeThrows
        THEN /\ toasts' = <<Toast("Export Error", <<>>)>>
             /\ error' = "Export error"
             /\ written' = Null
        ELSE /\ toasts' = <<Toast("Export Successful", <<>>)>>
             /\ written' = [records |-> data]
             /\ UNCHANGED error
  /\ isExporting' = FALSE
  /\ UNCHANGED <<file, isLoading, isAutoProcessing, processedData>>
  /\ UNCHANGED fileVars
  /\ UNCHANGED runVars

\* handleExportResults run by its button, which is rendered with the table and
\* is disabled while !hasExportableData || isExporting || isLoading ||
\* isAutoProcessing.
handleExportResults ==
  \E writeThrows \in BOOLEAN :
    /\ processedData # Null /\ ~isLoading
    /\ ~(~hasExportableData(processedData) \/ isExporting \/ isLoading \/ isAutoProcessing)
    /\ exportResults(writeThrows)
    /\ UNCHANGED serverVars

--------------------------------------------------------------------------
(* handleAutoProcess, one action per suspension point.                    *)

\* row.values[websiteHeaderIdx], or undefined when the column is unknown.
websiteOf(pd, row) ==
  LET siteIdx == headerIdx(pd.originalHeaders, pd.mappedHeaders.website)
  IN IF siteIdx # -1 THEN At(row.values, siteIdx) ELSE Undefined

companyDataForSave(pd, row, summarized) ==
  LET nameIdx == headerIdx(pd.originalHeaders, pd.mappedHeaders.companyName)
      countryIdx == headerIdx(pd.originalHeaders, pd.mappedHeaders.country)
  IN [companyName |-> IF nameIdx # -1 THEN At(row.values, nameIdx) ELSE Undefined,
      country |-> IF countryIdx # -1 THEN At(row.values, countryIdx) ELSE Undefined,
      website |-> websiteOf(pd, row),
      metadata |-> [summary |-> summarized.summary,
                    independenceCriteria |-> summarized.independenceCriteria,
                    insufficientInformation |-> summarized.insufficientInformation]]

\* As fetchedRow, but a slash is appended to the last cell of the row.
fetchedRow_RewritesValues(row, summarized) ==
  [row EXCEPT !.summary = summarized.summary,
              !.independenceCriteria = summarized.independenceCriteria,
              !.insufficientInformation = summarized.insufficientInformation,
              !.processingStatus = "Fetched",
              !.values = [@ EXCEPT ![Len(@)] = @ \o <<"/">>]]

\* { ...row, summary, independenceCriteria, insufficientInformation, processingStatus: 'Fetched' }
fetchedRow(row, summarized) ==
  [row EXCEPT !.summary = summarized.summary,
              !.independenceCriteria = summarized.independenceCriteria,
              !.insufficientInformation = summarized.insufficientInformation,
              !.processingStatus = "Fetched"]

\* As scrapeFailed, without the test of the content.
scrapeFailed_IgnoresContent(resp) == resp.threw \/ resp.status # "success"

scrapeFailed(resp) == resp.threw \/ resp.status # "success" \/ ~Truthy(resp.content)

summarizeFailed_IgnoresEmpty(resp) == resp.threw \/ resp.status # "success"

summarizeFailed(resp) == resp.threw \/ resp.status # "success" \/ ~Truthy(resp.summary)

\* As canAutoProcess, without the test of isAutoProcessing.
canAutoProcess_IgnoresInFlight ==
  /\ processedData # Null
  /\ ~isLoading
  /\ ~isExporting
  /\ \E k \in 1..Len(processedData.tableData) : isEligible(processedData.tableData[k])

\* canAutoProcess of the render; the button is rendered with the table.
canAutoProcess ==
  /\ processedData # Null
  /\ ~isLoading
  /\ ~isAutoProcessing
  /\ ~isExporting
  /\ \E k \in 1..Len(processedData.tableData) : isEligible(processedData.tableData[k])

\* As returnsAtOnce, without the test of the website.
returnsAtOnce_IgnoresWebsite(pd, k) == ~isEligible(pd.tableData[k])

\* As returnsAtOnce, without the test of the processing status.
returnsAtOnce_IgnoresStatus(pd, k) ==
  pd.tableData[k].hasError \/ ~Truthy(websiteOf(pd, pd.tableData[k]))

\* Whether the map callback returns row k before any await: the row is not
\* eligible, or it has no website.
returnsAtOnce(pd, k) ==
  ~isEligible(pd.tableData[k]) \/ ~Truthy(websiteOf(pd, pd.tableData[k]))

\* handleAutoProcess up to the await of Promise.all: the callback of map runs
\* for every row, in order, up to its first await.
handleAutoProcess ==
  /\ canAutoProcess
  /\ LET pd == processedData
         n == Len(pd.tableData)
         skipped == {k \in 1..n : isEligible(pd.tableData[k])
                                  /\ ~Truthy(websiteOf(pd, pd.tableData[k]))}
     IN IF \A k \in 1..n : ~isEligible(pd.tableData[k])
        THEN /\ toasts' = <<Toast("No Rows to Process", <<>>)>>
             /\ isAutoProcessing' = FALSE
             /\ clearRun
        ELSE /\ isAutoProcessing' = TRUE
             /\ toasts' = <<>>
             /\ successCount' = 0
             /\ errorCount' = Cardinality(skipped)
             /\ rowPc' = [k \in 1..n |-> IF returnsAtOnce(pd, k) THEN "returned" ELSE "scrape"]
             /\ calls' = [k \in 1..n |->
                            IF returnsAtOnce(pd, k) THEN <<>>
                            ELSE <<Call("scrape", websiteOf(pd, pd.tableData[k]))>>]
             /\ newRow' = [k \in 1..n |-> pd.tableData[k]]
             /\ scrapeResult' = [k \in 1..n |-> NoResponse]
             /\ summarizeResult' = [k \in 1..n |-> NoResponse]
             /\ saveResult' = [k \in 1..n |-> NoResponse]
  /\ written' = Null
  /\ UNCHANGED <<file, isLoading, isExporting, error, processedData>>
  /\ UNCHANGED fileVars
  /\ UNCHANGED serverVars

\* As scrapeStep, but a failed scrape is tried once more.
scrapeStep_Retries(k, resp) ==
  /\ rowPc[k] = "scrape"
  /\ scrapeResult' = [scrapeResult EXCEPT ![k] = resp]
  /\ IF scrapeFailed(resp)
     THEN IF Len(calls[k]) < 2
          THEN /\ calls' = [calls EXCEPT ![k] = Append(@, calls[k][1])]
               /\ UNCHANGED <<errorCount, rowPc>>
          ELSE /\ errorCount' = errorCount + 1
               /\ rowPc' = [rowPc EXCEPT ![k] = "returned"]
               /\ UNCHANGED calls
     ELSE /\ rowPc' = [rowPc EXCEPT ![k] = "summarize"]
          /\ calls' = [calls EXCEPT ![k] = Append(@, Call("summarize", resp.content))]
          /\ UNCHANGED errorCount
  /\ UNCHANGED <<summarizeResult, saveResult, newRow, successCount>>
  /\ UNCHANGED <<sessionVars, toasts, written>>
  /\ UNCHANGED fileVars

\* The callback of row k resumes with the scrape response.
scrapeStep(k, resp) ==
  /\ rowPc[k] = "scrape"
  /\ scrapeResult' = [scrapeResult EXCEPT ![k] = resp]
  /\ IF scrapeFailed(resp)
     THEN /\ errorCount' = errorCount + 1
          /\ rowPc' = [rowPc EXCEPT ![k] = "returned"]
          /\ UNCHANGED calls
     ELSE /\ rowPc' = [rowPc EXCEPT ![k] = "summarize"]
          /\ calls' = [calls EXCEPT ![k] = Append(@, Call("summarize", resp.content))]
          /\ UNCHANGED errorCount
  /\ UNCHANGED <<summarizeResult, saveResult, newRow, successCount>>
  /\ UNCHANGED <<sessionVars, toasts, written>>
  /\ UNCHANGED fileVars

\* As scrapeReturns, but a rejection escapes the callback: Promise.all
\* rejects and the values of the rows that had resolved are dropped.
scrapeReturns_Uncaught ==
  \E k \in 1..Len(rowPc), resp \in ScrapeResponses :
    /\ IF resp.threw
       THEN /\ rowPc[k] = "scrape"
            /\ scrapeResult' = [scrapeResult EXCEPT ![k] = resp]
            /\ errorCount' = errorCount + 1
            /\ rowPc' = [j \in 1..Len(rowPc) |-> "returned"]
            /\ newRow' = processedData.tableData
            /\ UNCHANGED <<summarizeResult, saveResult, successCount, calls>>
            /\ UNCHANGED <<sessionVars, toasts, written>>
            /\ UNCHANGED fileVars
       ELSE scrapeStep(k, resp)
    /\ UNCHANGED serverVars

\* scrapeWebsiteContentCallable settles for row k.
scrapeReturns ==
  \E k \in 1..Len(rowPc), resp \in ScrapeResponses :
    /\ scrapeStep(k, resp)
    /\ UNCHANGED serverVars

\* summarizeCompanyContentCallable settles for row k.
summarizeReturns ==
  \E k \in 1..Len(rowPc) :
   \E resp \in SummarizeResponsesFor(k) :
    /\ rowPc[k] = "summarize"
    /\ summarizeResult' = [summarizeResult EXCEPT ![k] = resp]
    /\ IF summarizeFailed(resp)
       THEN /\ errorCount' = errorCount + 1
            /\ rowPc' = [rowPc EXCEPT ![k] = "returned"]
            /\ UNCHANGED calls
       ELSE /\ rowPc' = [rowPc EXCEPT ![k] = "save"]
            /\ calls' = [calls EXCEPT ![k] =
                           Append(@, Call("save", companyDataForSave(processedData, newRow[k], resp)))]
            /\ UNCHANGED errorCount
    /\ UNCHANGED <<scrapeResult, saveResult, newRow, successCount>>
    /\ UNCHANGED <<sessionVars, toasts, written>>
    /\ UNCHANGED fileVars
    /\ UNCHANGED serverVars

\* As saveReturns, but the Fetched row is also written into the table at once.
saveReturns_WritesThrough ==
  \E k \in 1..Len(rowPc), saveThrows \in BOOLEAN :
    /\ rowPc[k] = "save"
    /\ saveResult' = [saveResult EXCEPT ![k] = [threw |-> saveThrows, status |-> "settled"]]
    /\ successCount' = successCount + 1
    /\ newRow' = [newRow EXCEPT ![k] = fetchedRow(@, summarizeResult[k])]
    /\ processedData' = [processedData EXCEPT
                           !.tableData[k] = fetchedRow(@, summarizeResult[k])]
    /\ rowPc' = [rowPc EXCEPT ![k] = "returned"]
    /\ UNCHANGED <<scrapeResult, summarizeResult, errorCount, calls>>
    /\ UNCHANGED <<file, isLoading, isExporting, isAutoProcessing, error, toasts, written>>
    /\ UNCHANGED fileVars
    /\ UNCHANGED serverVars

\* As saveReturns, but the Fetched row takes the fields of the summarize
\* response that arrived last in the run.
saveReturns_SharedSummary ==
  \E k \in 1..Len(rowPc), saveThrows \in BOOLEAN :
    /\ rowPc[k] = "save"
    /\ saveResult' = [saveResult EXCEPT ![k] = [threw |-> saveThrows, status |-> "settled"]]
    /\ successCount' = successCount + 1
    /\ \E j \in 1..Len(rowPc) :
         /\ rowPc[j] \in {"save", "returned"}
         /\ ~summarizeFailed(summarizeResult[j])
         /\ newRow' = [newRow EXCEPT ![k] = fetchedRow(@, summarizeResult[j])]
    /\ rowPc' = [rowPc EXCEPT ![k] = "returned"]
    /\ UNCHANGED <<scrapeResult, summarizeResult, errorCount, calls>>
    /\ UNCHANGED <<sessionVars, toasts, written>>
    /\ UNCHANGED fileVars
    /\ UNCHANGED serverVars

\* As saveReturns, but the count of successes is written from the value it
\* had when the run was dispatched.
saveReturns_StaleCount ==
  \E k \in 1..Len(rowPc), saveThrows \in BOOLEAN :
    /\ rowPc[k] = "save"
    /\ saveResult' = [saveResult EXCEPT ![k] = [threw |-> saveThrows, status |-> "settled"]]
    /\ successCount' = 0 + 1
    /\ newRow' = [newRow EXCEPT ![k] = fetchedRow(@, summarizeResult[k])]
    /\ rowPc' = [rowPc EXCEPT ![k] = "returned"]
    /\ UNCHANGED <<scrapeResult, summarizeResult, errorCount, calls>>
    /\ UNCHANGED <<sessionVars, toasts, written>>
    /\ UNCHANGED fileVars
    /\ UNCHANGED serverVars

\* As saveReturns, but a rejection reaches the outer catch block.
saveReturns_Strict ==
  \E k \in 1..Len(rowPc), saveThrows \in BOOLEAN :
    /\ rowPc[k] = "save"
    /\ saveResult' = [saveResult EXCEPT ![k] = [threw |-> saveThrows, status |-> "settled"]]
    /\ IF saveThrows
       THEN /\ errorCount' = errorCount + 1
            /\ UNCHANGED <<successCount, newRow>>
       ELSE /\ successCount' = successCount + 1
            /\ newRow' = [newRow EXCEPT ![k] = fetchedRow(@, summarizeResult[k])]
            /\ UNCHANGED errorCount
    /\ rowPc' = [rowPc EXCEPT ![k] = "returned"]
    /\ UNCHANGED <<scrapeResult, summarizeResult, calls>>
    /\ UNCHANGED <<sessionVars, toasts, written>>
    /\ UNCHANGED fileVars
    /\ UNCHANGED serverVars

\* saveCompanyEntryCallable settles for row k: a rejection is logged only.
saveReturns ==
  \E k \in 1..Len(rowPc), saveThrows \in BOOLEAN :
    /\ rowPc[k] = "save"
    /\ saveResult' = [saveResult EXCEPT ![k] = [threw |-> saveThrows, status |-> "settled"]]
    /\ successCount' = successCount + 1
    /\ newRow' = [newRow EXCEPT ![k] = fetchedRow(@, summarizeResult[k])]
    /\ rowPc' = [rowPc EXCEPT ![k] = "returned"]
    /\ UNCHANGED <<scrapeResult, summarizeResult, errorCount, calls>>
    /\ UNCHANGED <<sessionVars, toasts, written>>
    /\ UNCHANGED fileVars
    /\ UNCHANGED serverVars

\* As autoProcessFinish, but continuing as soon as one promise has resolved.
autoProcessFinish_Race ==
  /\ isAutoProcessing
  /\ \E k \in 1..Len(rowPc) : rowPc[k] = "returned"
  /\ processedData' = IF processedData # Null
                      THEN [processedData EXCEPT !.tableData = newRow]
                      ELSE Null
  /\ toasts' = <<Toast("Auto Processing Complete", <<successCount, errorCount>>)>>
  /\ isAutoProcessing' = FALSE
  /\ UNCHANGED <<file, isLoading, isExporting, error, written>>
  /\ UNCHANGED fileVars
  /\ UNCHANGED runVars
  /\ UNCHANGED serverVars

\* Promise.all has resolved: the table is replaced, the counts are reported.
autoProcessFinish ==
  /\ isAutoProcessing
  /\ \A k \in 1..Len(rowPc) : rowPc[k] = "returned"
  /\ processedData' = IF processedData # Null
                      THEN [processedData EXCEPT !.tableData = newRow]
                      ELSE Null
  /\ toasts' = <<Toast("Auto Processing Complete", <<successCount, errorCount>>)>>
  /\ isAutoProcessing' = FALSE
  /\ UNCHANGED <<file, isLoading, isExporting, error, written>>
  /\ UNCHANGED fileVars
  /\ UNCHANGED runVars
  /\ UNCHANGED serverVars

Next ==
  \/ handleFileSelect
  \/ parseXLSXReturns
  \/ detectHeadersReturns
  \/ checkReturns
  \/ handleProcessAnotherFile
  \/ handleExportResults
  \/ handleAutoProcess
  \/ scrapeReturns
  \/ summarizeReturns
  \/ saveReturns
  \/ autoProcessFinish

Spec == Init /\ [][Next]_vars

--------------------------------------------------------------------------
(* functions/src/index.ts as a process of its own: the store, the clock   *)
(* and the two callables.                                                 *)

MaxStore == 2
MaxMonth == 12
MaxBatch == 2

Bolt == <<"B", "o", "l", "t">>
SiteOther == <<"c", ".", "b">>

Metadata1 == CHOOSE m \in MetadataValues : m.summary = Overview

\* Data of saveCompanyEntry calls: a full identity, one without country, and
\* one none of whose fields normalizes to a truthy value.
SaveInputs ==
  { [companyName |-> Acme, country |-> US, website |-> SiteBare, metadata |-> Metadata1],
    [companyName |-> Acme, country |-> Undefined, website |-> SiteBare, metadata |-> Metadata1],
    [companyName |-> Spaces, country |-> Undefined, website |-> SiteBad, metadata |-> Metadata1] }

\* Identities of checkForExistingCompanies calls (originalIndex is set per batch).
QueryIdentities ==
  { [companyName |-> Acme, country |-> US, website |-> SiteOther],
    [companyName |-> Bolt, country |-> Undefined, website |-> SiteUpper],
    [companyName |-> Acme, country |-> Undefined, website |-> SiteUpper],
    [companyName |-> Acme, country |-> Spaces, website |-> SiteBad],
    [companyName |-> Undefined, country |-> Undefined, website |-> Undefined] }

Batches ==
  { [k \in 1..Len(b) |->
       [originalIndex |-> k - 1, companyName |-> b[k].companyName,
        country |-> b[k].country, website |-> b[k].website]]
    : b \in SeqsUpTo(QueryIdentities, MaxBatch) }

Threw(code) == [threw |-> TRUE, code |-> code, results |-> <<>>]
Returned(results) == [threw |-> FALSE, code |-> "ok", results |-> results]

idle == request = Null /\ response = Null

\* A saveCompanyEntry call arrives.
saveCompanyEntryCalled ==
  \E data \in SaveInputs :
    /\ idle
    /\ Len(db) < MaxStore
    /\ request' = [fn |-> "saveCompanyEntry", data |-> data, failing |-> {}]
    /\ UNCHANGED <<db, clock, response>>
    /\ UNCHANGED clientVars

\* As saveCompanyEntry, but the website is stored as it was supplied.
saveCompanyEntry_StoresRawWebsite ==
  \E addThrows \in BOOLEAN :
    /\ request # Null /\ response = Null
    /\ request.fn = "saveCompanyEntry"
    /\ LET data == request.data
       IN IF /\ ~Truthy(normText(data.companyName))
             /\ ~Truthy(normText(data.country))
             /\ ~Truthy(normalizeUrlInternal(data.website))
          THEN /\ response' = Threw("invalid-argument")
               /\ UNCHANGED db
          ELSE IF addThrows
          THEN /\ response' = Threw("internal")
               /\ UNCHANGED db
          ELSE /\ db' = Append(db, [companyData(data, clock) EXCEPT !.website = data.website])
               /\ response' = Returned(<<>>)
    /\ UNCHANGED <<clock, request>>
    /\ UNCHANGED clientVars

\* saveCompanyEntry: invalid-argument when no field normalizes to a truthy
\* value, internal when the add rejects, otherwise one document is added.
saveCompanyEntry ==
  \E addThrows \in BOOLEAN :
    /\ request # Null /\ response = Null
    /\ request.fn = "saveCompanyEntry"
    /\ LET data == request.data
       IN IF /\ ~Truthy(normText(data.companyName))
             /\ ~Truthy(normText(data.country))
             /\ ~Truthy(normalizeUrlInternal(data.website))
          THEN /\ response' = Threw("invalid-argument")
               /\ UNCHANGED db
          ELSE IF addThrows
          THEN /\ response' = Threw("internal")
               /\ UNCHANGED db
          ELSE /\ db' = Append(db, companyData(data, clock))
               /\ response' = Returned(<<>>)
    /\ UNCHANGED <<clock, request>>
    /\ UNCHANGED clientVars

\* A checkForExistingCompanies call arrives; failing names the identity whose
\* store query will reject, if any.
checkForExistingCompaniesCalled ==
  \E companies \in Batches :
    \E failing \in {{}} \cup {{companies[k].originalIndex} : k \in 1..Len(companies)} :
      /\ idle
      /\ request' = [fn |-> "checkForExistingCompanies", data |-> companies,
                     failing |-> failing]
      /\ UNCHANGED <<db, clock, response>>
      /\ UNCHANGED clientVars

\* checkForExistingCompanies returns { results }.
checkForExistingCompaniesReturns ==
  /\ request # Null /\ response = Null
  /\ request.fn = "checkForExistingCompanies"
  /\ \E results \in checkForExistingCompanies(db, clock, request.data, request.failing) :
       response' = Returned(results)
  /\ UNCHANGED <<db, clock, request>>
  /\ UNCHANGED clientVars

\* The caller has the response: no call is in flight.
callCompletes ==
  /\ response # Null
  /\ request' = Null
  /\ response' = Null
  /\ UNCHANGED <<db, clock>>
  /\ UNCHANGED clientVars

\* Six months pass between calls.
tick ==
  /\ idle
  /\ clock + SixMonths <= MaxMonth
  /\ clock' = clock + SixMonths
  /\ UNCHANGED <<db, request, response>>
  /\ UNCHANGED clientVars

NextServer ==
  \/ saveCompanyEntryCalled
  \/ saveCompanyEntry
  \/ checkForExistingCompaniesCalled
  \/ checkForExistingCompaniesReturns
  \/ callCompletes
  \/ tick

SpecServer == Init /\ [][NextServer]_vars

--------------------------------------------------------------------------
(* The page and the functions together: the reconciliation and the save    *)
(* calls of the page are answered by the functions from the store.         *)

SiteSlashes == <<"b", "/", "/">>

\* Sheets of one data row: a name that is there, blank or of spaces, a
\* country or none, and a website that normalizes (bare with a trailing
\* slash, upper case with its scheme, ending in two slashes), is no
\* address, is of spaces or is blank.
StoredSheets ==
  { [headers |-> HeaderRow, data |-> <<<<n, c, w>>>>]
    : n \in {Acme, Spaces, Blank}, c \in {US, Blank},
      w \in {SiteBare, SiteUpper, SiteSlashes, SiteBad, Spaces, Blank} }

\* handleFileSelect with one of the sheets above.
handleFileSelectStored ==
  \E selectedFile \in StoredSheets :
    /\ uploadAreaShown
    /\ processFile(selectedFile)

\* checkForExistingCompaniesCallable resolves with what the function
\* computes on the store at the time of the call.
checkReturnsFromStore ==
  /\ pfPc = "check"
  /\ \E results \in checkForExistingCompanies(db, clock,
                       companiesToCheck(file, detectedHeaders), {}) :
       processFileFinish(detectedHeaders, results, FALSE)
  /\ UNCHANGED serverVars

\* saveCompanyEntryCallable settles for row k with the outcome of
\* saveCompanyEntry on the store: the call does not reach the function or
\* the add rejects (unavailable), the data is invalid, or one document is
\* added.  The callback goes on as in saveReturns.
saveReturnsFromStore ==
  \E k \in 1..Len(rowPc), unavailable \in BOOLEAN :
    /\ rowPc[k] = "save"
    /\ LET data == calls[k][Len(calls[k])].arg
           invalid == /\ ~Truthy(normText(data.companyName))
                      /\ ~Truthy(normText(data.country))
                      /\ ~Truthy(normalizeUrlInternal(data.website))
           threw == unavailable \/ invalid
       IN /\ ~threw => Len(db) < MaxStore
          /\ db' = IF threw THEN db ELSE Append(db, companyData(data, clock))
          /\ saveResult' = [saveResult EXCEPT ![k] = [threw |-> threw, status |-> "settled"]]
    /\ successCount' = successCount + 1
    /\ newRow' = [newRow EXCEPT ![k] = fetchedRow(@, summarizeResult[k])]
    /\ rowPc' = [rowPc EXCEPT ![k] = "returned"]
    /\ UNCHANGED <<scrapeResult, summarizeResult, errorCount, calls>>
    /\ UNCHANGED <<sessionVars, toasts, written>>
    /\ UNCHANGED fileVars
    /\ UNCHANGED <<clock, request, response>>

\* Six months pass while the page is at rest.
monthsPass ==
  /\ pfPc = "idle" /\ ~isAutoProcessing
  /\ clock + SixMonths <= MaxMonth
  /\ clock' = clock + SixMonths
  /\ UNCHANGED <<db, request, response>>
  /\ UNCHANGED clientVars

NextStored ==
  \/ handleFileSelectStored
  \/ parseXLSXReturns
  \/ detectHeadersReturns
  \/ checkReturnsFromStore
  \/ handleProcessAnotherFile
  \/ handleAutoProcess
  \/ scrapeReturns
  \/ summarizeReturns
  \/ saveReturnsFromStore
  \/ autoProcessFinish
  \/ monthsPass

SpecStored == Init /\ [][NextStored]_vars

--------------------------------------------------------------------------
(* The page with its awaited calls settling: the specification of the      *)
(* liveness properties.                                                    *)

\* checkReturns for the fairness condition.  Its steps under Next are those
\* of checkReturns, and it is enabled exactly when processFile awaits the
\* reconciliation call.  The first disjunct is never a step of Next
\* (processFile always resets isLoading): it lets ENABLED be decided from
\* the position of processFile, without building the table.
checkSettles ==
  \/ /\ pfPc = "check"
     /\ pfPc' = "idle"
     /\ UNCHANGED <<sessionVars, toasts, written, detectedHeaders, fileCalls>>
     /\ UNCHANGED runVars
     /\ UNCHANGED serverVars
  \/ checkReturns

\* Every remote call and every library call that is awaited settles, and
\* the continuation that awaits it is then run by the event loop; handlers
\* are started by the user, who need not do anything.
Settling ==
  /\ WF_vars(parseXLSXReturns)
  /\ WF_vars(detectHeadersReturns)
  /\ WF_vars(checkSettles)
  /\ WF_vars(scrapeReturns)
  /\ WF_vars(summarizeReturns)
  /\ WF_vars(saveReturns)
  /\ WF_vars(autoProcessFinish)

\* The sheets of at most MaxBatch data rows, and the sheet without headers.
ShortSheets ==
  {[headers |-> <<>>, data |-> <<>>]}
    \cup {[headers |-> HeaderRow, data |-> d] : d \in SeqsUpTo(RowCatalog, MaxBatch)}

\* handleFileSelect with one of the sheets above.
handleFileSelectShort ==
  \E selectedFile \in ShortSheets :
    /\ uploadAreaShown
    /\ processFile(selectedFile)

NextLive ==
  \/ handleFileSelectShort
  \/ parseXLSXReturns
  \/ detectHeadersReturns
  \/ checkReturns
  \/ handleProcessAnotherFile
  \/ handleExportResults
  \/ handleAutoProcess
  \/ scrapeReturns
  \/ summarizeReturns
  \/ saveReturns
  \/ autoProcessFinish

SpecLive == Init /\ [][NextLive]_vars /\ Settling

--------------------------------------------------------------------------
(* The pure functions of the client, applied to arguments drawn from       *)
(* bounded sets: request holds the arguments of the call, response the     *)
(* value it returned.                                                      *)

MaxLen == 3

UrlAlphabet == {"A", "b", "/", " ", ":"}

FooSite == <<"W", "W", "W", ".", "F", "o", "o", ".", "c", "o", "m", "/">>
NotAUrl == <<"n", "o", "t", " ", "a", " ", "u", "r", "l">>

\* Arguments of normalizeUrl: undefined, every text of up to MaxLen
\* characters, a bare scheme in both spellings, and whole addresses.
UrlInputs ==
  {Undefined} \cup SeqsUpTo(UrlAlphabet, MaxLen)
    \cup {HttpPrefix, HttpsPrefix, toLowerCase(SiteUpper), SiteUpper \o <<"/", "/">>,
          SiteBare \o <<" ">>, <<" ">> \o SiteUpper \o <<" ", "/">>, FooSite, NotAUrl,
          SiteBad, SiteBare}

NormalizeCalls == {[fn |-> "normalizeUrl", url |-> u, nth |-> 1] : u \in UrlInputs}

\* Data rows: every pairing of a name cell and a website cell, and a row
\* that ends before the website column.
PureRows ==
  { <<n, US, w>> : n \in {Acme, Blank, Spaces},
                   w \in {SiteBare, SiteUpper, SiteBad, Blank, Spaces} }
    \cup {<<Acme, US>>}

\* The results a reconciliation response can hold for the rows 0..n-1.
ResultRecords(n) ==
  UNION { { [originalIndex |-> i, matched |-> FALSE, metadata |-> NoMetadata,
             error |-> Undefined],
            [originalIndex |-> i, matched |-> FALSE, metadata |-> NoMetadata,
             error |-> ErrorText] }
          \cup { [originalIndex |-> i, matched |-> TRUE, metadata |-> m,
                   error |-> Undefined] : m \in MetadataValues }
          : i \in 0..(n - 1) }

\* Responses for n rows: at most one result per originalIndex, in any order.
ResultLists(n) ==
  { r \in SeqsUpTo(ResultRecords(n), n) :
      \A i, j \in 1..Len(r) : i # j => r[i].originalIndex # r[j].originalIndex }

Rejected == [threw |-> TRUE, results |-> <<>>]
Resolved(results) == [threw |-> FALSE, results |-> results]

\* Calls that build the table: a sheet of no or one row of any kind under
\* every header mapping, and sheets of MaxBatch rows under the full mapping
\* with every response.
TableCalls ==
  { [fn |-> "tableData", sheet |-> [headers |-> HeaderRow, data |-> d], mapped |-> h,
     outcome |-> o, nth |-> 1, first |-> <<>>]
    : d \in {<<>>} \cup {<<row>> : row \in PureRows},
      h \in HeaderMappings,
      o \in {Rejected} \cup {Resolved(r) : r \in ResultLists(1)} }
  \cup
  { [fn |-> "tableData", sheet |-> [headers |-> HeaderRow, data |-> d],
     mapped |-> [companyName |-> "Company", country |-> "Country", website |-> "Website"],
     outcome |-> o, nth |-> 1, first |-> <<>>]
    : d \in {q \in SeqsUpTo(RowCatalog, MaxBatch) : Len(q) = MaxBatch},
      o \in {Rejected} \cup {Resolved(r) : r \in ResultLists(MaxBatch)} }

PureCalls == NormalizeCalls \cup TableCalls

\* Data rows of the sheets the export handler is applied to: a good row, a
\* row without a name, a row whose website is no address.
ExportRows == {<<Acme, US, SiteBare>>, <<Blank, US, SiteUpper>>, <<Acme, US, SiteBad>>}

\* A response that matches every one of n rows with the stored overview.
matchedAll(n) ==
  [k \in 1..n |->
     [originalIndex |-> k - 1, matched |-> TRUE,
      metadata |-> CHOOSE m \in MetadataValues : m.summary = Overview,
      error |-> Undefined]]

\* Sessions showing the table processFile built from a sheet of up to
\* MaxBatch rows, with the reconciliation call rejected or matching every row.
ExportSessions ==
  { [fn |-> "handleExportResults", file |-> sheet,
     pd |-> [originalHeaders |-> sheet.headers, mappedHeaders |-> h,
             tableData |-> tableData(sheet, h,
                             companyMatchResults(companiesToCheck(sheet, h),
                               IF rejects THEN Rejected
                               ELSE Resolved(matchedAll(Len(sheet.data)))))]]
    : sheet \in {[headers |-> HeaderRow, data |-> d] : d \in SeqsUpTo(ExportRows, MaxBatch)},
      h \in HeaderMappings,
      rejects \in BOOLEAN }

SiteNormal == normalizeUrl(SiteBare)

\* A value of type TableDataRow without error and without summary.
TypedRow(index, values, status) ==
  [id |-> index, values |-> values, hasError |-> FALSE, processingStatus |-> status,
   summary |-> Undefined, independenceCriteria |-> Undefined,
   insufficientInformation |-> Undefined]

\* Tables of type TableDataRow[] of up to MaxBatch rows To Process without
\* error, whose website value is an address, the empty text or missing.
\* processFile itself sets hasError on a row without a website value: the
\* rows lacking one here are values of the type only.
TypedTables ==
  { [k \in 1..Len(v) |-> TypedRow(k - 1, v[k], "To Process")]
    : v \in SeqsUpTo({<<Acme, US, SiteNormal>>, <<Acme, US, Blank>>, <<Acme, US>>},
                      MaxBatch) \ {<<>>} }

\* Sessions handleAutoProcess is run in: a typed table under the full header
\* mapping and under one whose website header is not in the sheet.
AutoProcessSessions ==
  { [fn |-> "handleAutoProcess",
     file |-> [headers |-> HeaderRow, data |-> [k \in 1..Len(t) |-> t[k].values]],
     pd |-> [originalHeaders |-> HeaderRow, mappedHeaders |-> h, tableData |-> t]]
    : t \in TypedTables,
      h \in {m \in HeaderMappings : m.companyName # ""} }

No == <<"N", "o">>

\* What the prompt of the flow with the three output fields can return: no
\* output, or a summary with the two markers as the model set them.
PromptOutputs ==
  {Null} \cup
  { [summary |-> s, independenceCriteria |-> i, insufficientInformation |-> n]
    : s \in {Overview, UNUSABLE_CONTENT_RESPONSE}, i \in {<<>>, Yes}, n \in {<<>>, Yes, No} }

\* What the prompt of functions/src/summarize-flow.ts can return: its output
\* schema has the summary only.
SummaryOnlyOutputs ==
  {Null} \cup
  { [summary |-> s, independenceCriteria |-> Undefined,
     insufficientInformation |-> Undefined]
    : s \in {Overview, UNUSABLE_CONTENT_RESPONSE} }

FlowThrew == [threw |-> TRUE, output |-> Null]

\* summarizeContentFlow of the flow with the three output fields: it throws
\* without output and sets insufficientInformation to "Yes" on the
\* unusable-content summary.
summarizeContentFlow(output) ==
  IF output = Null THEN FlowThrew
  ELSE IF output.summary = UNUSABLE_CONTENT_RESPONSE /\ output.insufficientInformation # Yes
  THEN [threw |-> FALSE, output |-> [output EXCEPT !.insufficientInformation = Yes]]
  ELSE [threw |-> FALSE, output |-> output]

\* summarizeContentFlow of functions/src/summarize-flow.ts, the module that
\* index.ts imports as './summarize-flow': the output is returned as it is.
summarizeContentFlowImported(output) ==
  IF output = Null THEN FlowThrew ELSE [threw |-> FALSE, output |-> output]

SummarizeThrew(code) ==
  [threw |-> TRUE, code |-> code, status |-> "error", summary |-> Undefined,
   independenceCriteria |-> Undefined, insufficientInformation |-> Undefined]

\* summarizeCompanyContent of index.ts on the result of the flow it awaits.
summarizeCompanyContent(data, result) ==
  IF data.content = Undefined \/ trim(data.content) = <<>>
  THEN SummarizeThrew("invalid-argument")
  ELSE IF result.threw THEN SummarizeThrew("internal")
  ELSE [threw |-> FALSE, code |-> "ok", status |-> "success",
        summary |-> result.output.summary,
        independenceCriteria |-> result.output.independenceCriteria,
        insufficientInformation |-> result.output.insufficientInformation]

\* Calls of summarizeCompanyContent: the content, the flow module the
\* function is built with, and what the prompt returns.
SummarizeCalls ==
  { [fn |-> "summarizeCompanyContent", data |-> [content |-> c], flow |-> "three fields",
     output |-> o] : c \in {Content, Spaces, Undefined}, o \in PromptOutputs }
  \cup
  { [fn |-> "summarizeCompanyContent", data |-> [content |-> c], flow |-> "imported",
     output |-> o] : c \in {Content, Spaces, Undefined}, o \in SummaryOnlyOutputs }

\* Calls of saveCompanyEntry on an empty store: every pairing of a name, a
\* country and a website that is present, blank, of spaces or missing.
SaveCalls ==
  { [fn |-> "saveCompanyEntry", failing |-> {},
     data |-> [companyName |-> n, country |-> c, website |-> w, metadata |-> Metadata1]]
    : n \in {Acme, Spaces, Blank, Undefined},
      c \in {US, Spaces, Undefined},
      w \in {SiteBare, SiteUpper, SiteBad, Spaces, Undefined} }

\* The session shows a table and a handler is about to be run on it.
InitHandler ==
  \E session \in ExportSessions \cup AutoProcessSessions :
    /\ file = session.file
    /\ isLoading = FALSE
    /\ isExporting = FALSE
    /\ isAutoProcessing = FALSE
    /\ error = ""
    /\ processedData = session.pd
    /\ toasts = <<>>
    /\ written = Null
    /\ pfPc = "idle"
    /\ detectedHeaders = Null
    /\ fileCalls = <<>>
    /\ NoRun
    /\ db = <<>>
    /\ clock = 0
    /\ request = [fn |-> session.fn]
    /\ response = Null

InitPure ==
  \/ /\ InitClient
     /\ db = <<>>
     /\ clock = 0
     /\ request \in PureCalls \cup SummarizeCalls \cup SaveCalls
     /\ response = Null
  \/ InitHandler

\* normalizeUrl returns.
normalizeUrlReturns ==
  /\ request.fn = "normalizeUrl"
  /\ response = Null
  /\ response' = [value |-> normalizeUrl(request.url)]
  /\ UNCHANGED <<db, clock, request>>
  /\ UNCHANGED clientVars

\* normalizeUrl is called with the text it returned.
normalizeUrlOfResult ==
  /\ request.fn = "normalizeUrl"
  /\ request.nth = 1
  /\ response # Null
  /\ response.value # Undefined
  /\ request' = [fn |-> "normalizeUrl", url |-> response.value, nth |-> 2]
  /\ response' = Null
  /\ UNCHANGED <<db, clock>>
  /\ UNCHANGED clientVars

\* The reorderings of a sequence.
Reorderings(q) ==
  { [i \in 1..Len(q) |-> q[p[i]]] :
      p \in {f \in [1..Len(q) -> 1..Len(q)] : \A i, j \in 1..Len(q) : i # j => f[i] # f[j]} }

\* processFile from the settling of the reconciliation call to tableData.
tableDataReturns ==
  /\ request.fn = "tableData"
  /\ response = Null
  /\ response' =
       [value |-> tableData(request.sheet, request.mapped,
                            companyMatchResults(companiesToCheck(request.sheet, request.mapped),
                                                request.outcome)),
        sent |-> companiesToCheck(request.sheet, request.mapped)]
  /\ UNCHANGED <<db, clock, request>>
  /\ UNCHANGED clientVars

\* The same file is processed with the results of the response reordered.
tableDataOfReordered ==
  /\ request.fn = "tableData"
  /\ request.nth = 1
  /\ response # Null
  /\ \E reordered \in Reorderings(request.outcome.results) \ {request.outcome.results} :
       request' = [request EXCEPT !.outcome.results = reordered, !.nth = 2,
                                  !.first = response.value]
  /\ response' = Null
  /\ UNCHANGED <<db, clock>>
  /\ UNCHANGED clientVars

\* handleExportResults is called and returns.
exportResultsReturns ==
  \E writeThrows \in BOOLEAN :
    /\ request.fn = "handleExportResults"
    /\ response = Null
    /\ exportResults(writeThrows)
    /\ response' = [value |-> Undefined]
    /\ UNCHANGED <<db, clock, request>>

\* handleAutoProcess is called by its button.
autoProcessCalled ==
  /\ request.fn = "handleAutoProcess"
  /\ handleAutoProcess

\* summarizeCompanyContent returns or throws.
summarizeCompanyContentReturns ==
  /\ request.fn = "summarizeCompanyContent"
  /\ response = Null
  /\ response' =
       [value |-> summarizeCompanyContent(request.data,
                    IF request.flow = "imported"
                    THEN summarizeContentFlowImported(request.output)
                    ELSE summarizeContentFlow(request.output))]
  /\ UNCHANGED <<db, clock, request>>
  /\ UNCHANGED clientVars

NextPure ==
  \/ summarizeCompanyContentReturns
  \/ saveCompanyEntry
  \/ normalizeUrlReturns
  \/ normalizeUrlOfResult
  \/ tableDataReturns
  \/ tableDataOfReordered
  \/ exportResultsReturns
  \/ autoProcessCalled
  \/ scrapeReturns
  \/ summarizeReturns
  \/ saveReturns
  \/ autoProcessFinish

SpecPure == InitPure /\ [][NextPure]_vars

--------------------------------------------------------------------------
(* Properties.                                                            *)

table == processedData.tableData

\* A run of handleAutoProcess has dispatched on the current table and its
\* call log is still there (the run is in flight or has finished).
runLogged == processedData # Null /\ rowPc # <<>>

FnNames(log) == [n \in 1..Len(log) |-> log[n].fn]

\* The response is a scrape success that carries content.
ScrapeOk(resp) ==
  /\ resp.status = "success"
  /\ ~resp.threw
  /\ resp.content # Undefined
  /\ resp.content # <<>>

\* The response is a summarize success that carries a summary.
SummarizeOk(resp) ==
  /\ resp.status = "success"
  /\ ~resp.threw
  /\ resp.summary # Undefined
  /\ resp.summary # <<>>

\* C1: a row with hasError = true is never enriched (no scrape, summarize or
\* save call is issued for it in any run) and is in no export, neither in the
\* records an export would write from the current table nor in a written
\* file, whatever its processingStatus.
C1_ErrorRowsExcluded ==
  processedData # Null =>
    \A k \in 1..Len(table) :
      table[k].hasError =>
        /\ rowPc # <<>> => calls[k] = <<>> /\ scrapeResult[k] = NoResponse
        /\ LET records == exportableData(processedData)
           IN \A n \in 1..Len(records) : records[n].rowId # table[k].id
        /\ written # Null =>
             \A n \in 1..Len(written.records) : written.records[n].rowId # table[k].id

\* C1 witness: a file was written after a run that enriched some row, while
\* the table holds a Fetched row (matched by name and country) with hasError.
C1_Witness ==
  /\ processedData # Null
  /\ written # Null
  /\ rowPc # <<>>
  /\ \E k \in 1..Len(table) :
       table[k].hasError /\ table[k].processingStatus = "Fetched"
  /\ \E k \in 1..Len(table) : table[k].hasError /\ table[k].processingStatus = "To Process"
  /\ \E k \in 1..Len(table) : Len(calls[k]) = 3

\* Row k was dispatched in the logged run and both of its responses succeeded.
OwnSuccess(k) == ScrapeOk(scrapeResult[k]) /\ SummarizeOk(summarizeResult[k])

\* The rows of the logged run whose pipeline has settled.
Settled == {k \in 1..Len(rowPc) : rowPc[k] = "returned" /\ calls[k] # <<>>}

CompleteToast(s, e) == Toast("Auto Processing Complete", <<s, e>>)

\* C2: in a run, the value every settled row resolves with is decided by that
\* row's own scrape and summarize responses alone (Fetched with its summary,
\* or the unchanged To Process row), in every interleaving; the counts are the
\* numbers of such rows, and the finished run reports them and installs
\* exactly these values as the table.
C2_RowOutcomesIndependent ==
  runLogged =>
    /\ \A k \in Settled :
         IF OwnSuccess(k)
         THEN /\ newRow[k].processingStatus = "Fetched"
              /\ newRow[k].summary = summarizeResult[k].summary
         ELSE /\ newRow[k].processingStatus = "To Process"
              /\ newRow[k].summary = Undefined
              /\ isAutoProcessing => newRow[k] = table[k]
    /\ successCount = Cardinality({k \in Settled : OwnSuccess(k)})
    /\ errorCount = Cardinality({k \in Settled : ~OwnSuccess(k)})
    /\ ~isAutoProcessing => table = newRow
    /\ \A n \in 1..Len(toasts) :
         toasts[n].title = "Auto Processing Complete" =>
           toasts[n] = CompleteToast(successCount, errorCount)

\* C2 witness: three eligible rows, the scrape of the second failed, the run
\* has finished: rows 1 and 3 are Fetched, row 2 is To Process, report 2 and 1.
C2_Witness ==
  /\ runLogged
  /\ toasts = <<CompleteToast(2, 1)>>
  /\ Len(table) = 3
  /\ \A k \in 1..3 : calls[k] # <<>>
  /\ scrapeResult[2] # NoResponse /\ ~ScrapeOk(scrapeResult[2])
  /\ table[1].processingStatus = "Fetched" /\ table[1].summary = summarizeResult[1].summary
  /\ table[2].processingStatus = "To Process"
  /\ table[3].processingStatus = "Fetched" /\ table[3].summary = summarizeResult[3].summary

\* C3: while a file's table is shown, no row goes from Fetched to To Process,
\* and a row goes from To Process to Fetched only when a run finishes in which
\* its scrape and its summarize both succeeded.
C3_StatusMonotone ==
  [][(processedData # Null /\ processedData' # Null) =>
       \A k \in 1..Len(table) :
         /\ table[k].processingStatus = "Fetched" =>
              processedData'.tableData[k].processingStatus = "Fetched"
         /\ (/\ table[k].processingStatus = "To Process"
             /\ processedData'.tableData[k].processingStatus = "Fetched") =>
              /\ isAutoProcessing /\ ~isAutoProcessing'
              /\ ScrapeOk(scrapeResult[k])
              /\ SummarizeOk(summarizeResult[k])]_vars

\* C3 witness: a finished run turned one row Fetched while a row that was
\* Fetched before the run (no call was issued for it) is still Fetched.
C3_Witness ==
  /\ runLogged
  /\ ~isAutoProcessing
  /\ \E k \in 1..Len(table) : Len(calls[k]) = 3 /\ table[k].processingStatus = "Fetched"
  /\ \E k \in 1..Len(table) :
       calls[k] = <<>> /\ ~table[k].hasError /\ table[k].processingStatus = "Fetched"
  /\ \E k \in 1..Len(table) :
       calls[k] # <<>> /\ table[k].processingStatus = "To Process"

\* A checkForExistingCompanies call has returned and its response is at hand.
checkAnswered ==
  /\ request # Null
  /\ response # Null
  /\ request.fn = "checkForExistingCompanies"

\* The fields of the query that are present (non-empty once normalized) and
\* equal, after normalization, to the field of the stored document.
AgreeingFields(query, doc) ==
  (IF /\ query.companyName # Undefined
      /\ toLowerCase(trim(query.companyName)) # <<>>
      /\ toLowerCase(trim(query.companyName)) = doc.normalizedCompanyName
   THEN {"companyName"} ELSE {})
  \cup (IF /\ query.country # Undefined
           /\ toLowerCase(trim(query.country)) # <<>>
           /\ toLowerCase(trim(query.country)) = doc.normalizedCountry
        THEN {"country"} ELSE {})
  \cup (IF /\ query.website # Undefined
           /\ normalizeUrl(query.website) # Undefined
           /\ normalizeUrl(query.website) = doc.website
        THEN {"website"} ELSE {})

\* The store holds a document created within the last six months that agrees
\* with the query on at least two of the three fields.
HoldsMatch(query) ==
  \E n \in 1..Len(db) :
    /\ clock - db[n].timestamp <= SixMonths
    /\ Cardinality(AgreeingFields(query, db[n])) >= 2

\* C4 as stated: matched = true exactly when the store holds such a document.
C4_MatchedIffStoreHoldsMatch ==
  checkAnswered =>
    \A k \in 1..Len(request.data) :
      response.results[k].matched <=> HoldsMatch(request.data[k])

\* C4 amended: matched = true exactly when the store query of the identity did
\* not reject and the store holds a document of the last six months that
\* agrees with the query on at least two of the three fields.
C4_MatchedIffQueriedStoreHoldsMatch ==
  checkAnswered =>
    \A k \in 1..Len(request.data) :
      /\ response.results[k].originalIndex = request.data[k].originalIndex
      /\ response.results[k].matched <=>
           (request.data[k].originalIndex \notin request.failing
              /\ HoldsMatch(request.data[k]))

\* C4 witness: a batch of two against a store with a recent document: one
\* identity agrees on name and country only and is matched, the other agrees
\* on the website only and is not.
C4_Witness ==
  /\ checkAnswered
  /\ Len(request.data) = 2
  /\ request.failing = {}
  /\ \E n \in 1..Len(db) :
       /\ clock - db[n].timestamp <= SixMonths
       /\ AgreeingFields(request.data[1], db[n]) = {"companyName", "country"}
  /\ response.results[1].matched
  /\ \E n \in 1..Len(db) : AgreeingFields(request.data[2], db[n]) = {"website"}
  /\ ~response.results[2].matched

\* The warning of a reconciliation call that failed as a whole.
WarningToasts == {n \in 1..Len(toasts) : toasts[n].title = "Database Check Error"}

NoSummaryFields(row) ==
  /\ row.summary = Undefined
  /\ row.independenceCriteria = Undefined
  /\ row.insufficientInformation = Undefined

\* C5: when the reconciliation call of a file failed as a whole, processing
\* does not end in the error state: the table is there with one row per data
\* row, every row is To Process without merged metadata, and the warning was
\* notified exactly once.
C5_BatchFailureDegrades ==
  WarningToasts # {} =>
    /\ Cardinality(WarningToasts) = 1
    /\ error = ""
    /\ ~isLoading
    /\ processedData # Null
    /\ Len(table) = Len(file.data)
    /\ \A k \in 1..Len(table) :
         table[k].processingStatus = "To Process" /\ NoSummaryFields(table[k])

\* C5 witness: the reconciliation call of a file of three rows failed and the
\* file is processed.
C5_Witness ==
  /\ WarningToasts # {}
  /\ processedData # Null
  /\ Len(table) = 3
  /\ toasts[Len(toasts)].title = "File Processed"

\* Row k has a scrape response and it is no success with content.
ScrapeFailure(k) == scrapeResult[k] # NoResponse /\ ~ScrapeOk(scrapeResult[k])

\* Row k has a summarize response and it is no success with a summary.
SummarizeFailure(k) == summarizeResult[k] # NoResponse /\ ~SummarizeOk(summarizeResult[k])

\* C6: in a run, a row whose scrape threw, was no success or had no content
\* has no summarize and no save call; a row whose summarize threw, was no
\* success or had no summary has no save call; either row resolves unchanged
\* (To Process, no summary fields) and adds exactly one to errorCount.
C6_FailedStepStopsRow ==
  runLogged =>
    /\ \A k \in 1..Len(rowPc) :
         /\ ScrapeFailure(k) => FnNames(calls[k]) = <<"scrape">>
         /\ SummarizeFailure(k) => FnNames(calls[k]) = <<"scrape", "summarize">>
         /\ (ScrapeFailure(k) \/ SummarizeFailure(k)) =>
              /\ rowPc[k] = "returned"
              /\ saveResult[k] = NoResponse
              /\ newRow[k].processingStatus = "To Process"
              /\ NoSummaryFields(newRow[k])
              /\ newRow[k] = table[k]
    /\ errorCount =
         Cardinality({k \in 1..Len(rowPc) : ScrapeFailure(k) \/ SummarizeFailure(k)})

\* C6 witness: a finished run in which one row's scrape returned success with
\* empty content, another's summarize threw and a third's returned an empty
\* summary: three errors.
C6_Witness ==
  /\ runLogged
  /\ toasts = <<CompleteToast(0, 3)>>
  /\ \E k \in 1..Len(rowPc) :
       scrapeResult[k].status = "success" /\ ~ScrapeOk(scrapeResult[k])
  /\ \E k \in 1..Len(rowPc) : summarizeResult[k].threw
  /\ \E k \in 1..Len(rowPc) :
       summarizeResult[k].status = "success" /\ ~SummarizeOk(summarizeResult[k])

\* The save call of row k has settled, resolved or rejected.
SaveSettled(k) == saveResult[k].status = "settled"

\* C7: a row whose scrape and summarize succeeded resolves as Fetched with
\* the fields of its summarize response and adds one to successCount and
\* nothing to errorCount, whether its save call resolved or rejected.
C7_SaveFailureKeepsSuccess ==
  runLogged =>
    /\ \A k \in 1..Len(rowPc) :
         SaveSettled(k) =>
           /\ OwnSuccess(k)
           /\ rowPc[k] = "returned"
           /\ newRow[k] = [table[k] EXCEPT
                 !.processingStatus = "Fetched",
                 !.summary = summarizeResult[k].summary,
                 !.independenceCriteria = summarizeResult[k].independenceCriteria,
                 !.insufficientInformation = summarizeResult[k].insufficientInformation]
    /\ successCount = Cardinality({k \in 1..Len(rowPc) : SaveSettled(k)})
    /\ errorCount = Cardinality({k \in Settled : ~SaveSettled(k)})

\* C7 witness: a finished run of two rows, the save of one rejected and the
\* save of the other resolved: both are Fetched, the report is 2 and 0.
C7_Witness ==
  /\ runLogged
  /\ toasts = <<CompleteToast(2, 0)>>
  /\ \E j, k \in 1..Len(rowPc) :
       /\ SaveSettled(j) /\ saveResult[j].threw
       /\ SaveSettled(k) /\ ~saveResult[k].threw
       /\ table[j].processingStatus = "Fetched" /\ table[j].summary = summarizeResult[j].summary
       /\ table[k].processingStatus = "Fetched" /\ table[k].summary = summarizeResult[k].summary

\* C8: in a run, the calls of a row are a prefix of scrape, summarize, save,
\* each at most once: summarize is called only with the content of that row's
\* successful scrape, save only with the summary of that row's successful
\* summarize, and a call that has an answer is not issued again.
C8_StepsOnceInOrder ==
  runLogged =>
    \A k \in 1..Len(rowPc) :
      /\ \E n \in 0..3 : FnNames(calls[k]) = SubSeq(<<"scrape", "summarize", "save">>, 1, n)
      /\ Len(calls[k]) >= 2 =>
           /\ ScrapeOk(scrapeResult[k])
           /\ calls[k][2].arg = scrapeResult[k].content
      /\ Len(calls[k]) >= 3 =>
           /\ SummarizeOk(summarizeResult[k])
           /\ calls[k][3].arg.metadata.summary = summarizeResult[k].summary
      /\ ScrapeFailure(k) => Len(calls[k]) = 1
      /\ scrapeResult[k] = NoResponse => Len(calls[k]) <= 1
      /\ summarizeResult[k] = NoResponse => Len(calls[k]) <= 2
      /\ saveResult[k] # NoResponse => Len(calls[k]) = 3

\* C8 witness: in one run a row went through scrape, summarize and save, and
\* a row whose scrape failed has its one scrape call only.
C8_Witness ==
  /\ runLogged
  /\ \E k \in 1..Len(rowPc) : FnNames(calls[k]) = <<"scrape", "summarize", "save">>
                              /\ rowPc[k] = "returned"
  /\ \E k \in 1..Len(rowPc) : ScrapeFailure(k) /\ FnNames(calls[k]) = <<"scrape">>

\* The run has reported: its completion notification is displayed.
Reported == \E n \in 1..Len(toasts) : toasts[n].title = "Auto Processing Complete"

\* C9: while a run is in flight the scrape call of every eligible row has
\* been issued, also when no response has arrived yet, and the table is not
\* replaced nor the report made; the report and the replaced table are there
\* only when every row of the run has settled.
C9_AllStartedReportAfterAll ==
  /\ isAutoProcessing =>
       /\ runLogged
       /\ ~Reported
       /\ \A k \in 1..Len(table) :
            isEligible(table[k]) => Len(calls[k]) >= 1 /\ calls[k][1].fn = "scrape"
       /\ \A k \in 1..Len(table) : calls[k] # <<>> => isEligible(table[k])
  /\ (Reported \/ (runLogged /\ ~isAutoProcessing)) =>
       /\ \A k \in 1..Len(rowPc) : rowPc[k] = "returned"
       /\ table = newRow

\* C9 witness: three eligible rows are dispatched and no response has arrived.
C9_Witness ==
  /\ isAutoProcessing
  /\ Len(rowPc) = 3
  /\ \A k \in 1..3 :
       FnNames(calls[k]) = <<"scrape">> /\ scrapeResult[k] = NoResponse /\ rowPc[k] = "scrape"

\* C10: while isAutoProcessing no run can be started, nothing can be
\* exported and no other file can be asked for; the calls in flight are those
\* of the one run.
C10_InFlightExcludes ==
  isAutoProcessing =>
    /\ ~ENABLED handleAutoProcess
    /\ ~ENABLED handleExportResults
    /\ ~ENABLED handleProcessAnotherFile
    /\ ~ENABLED handleFileSelect
    /\ runLogged

\* C10 witness: a run is in flight, one row has resolved as Fetched and
\* another still waits; the table has eligible rows and exportable rows.
C10_Witness ==
  /\ isAutoProcessing
  /\ \E k \in 1..Len(rowPc) : rowPc[k] = "returned" /\ newRow[k].processingStatus = "Fetched"
  /\ \E k \in 1..Len(rowPc) : rowPc[k] \in {"scrape", "summarize", "save"}
  /\ \E k \in 1..Len(table) : isEligible(table[k])
  /\ hasExportableData(processedData)

\* Every row of the logged run has settled.
AllReturned == \A k \in 1..Len(rowPc) : rowPc[k] = "returned"

\* C11: the table changes only as a whole: it is set when processFile ends,
\* replaced by the resolved rows when a run ends with every row settled, and
\* dropped when a file is selected or another file is asked for with no run
\* in flight; while a run is in flight the table is the one of the dispatch.
C11_TableReplacedAtCheckpoints ==
  [][/\ (isAutoProcessing /\ isAutoProcessing') => processedData' = processedData
     /\ processedData' # processedData =>
          \/ processedData' = Null /\ ~isAutoProcessing
          \/ processedData = Null /\ isLoading /\ ~isLoading' /\ pfPc' = "idle"
          \/ /\ isAutoProcessing /\ ~isAutoProcessing'
             /\ AllReturned
             /\ processedData # Null /\ processedData' # Null
             /\ processedData'.tableData = newRow
             /\ processedData'.originalHeaders = processedData.originalHeaders
             /\ processedData'.mappedHeaders = processedData.mappedHeaders]_vars

\* C11 witness: a run is in flight, one row has resolved as Fetched, another
\* is pending, and the table still shows the resolved row as To Process.
C11_Witness ==
  /\ isAutoProcessing
  /\ \E j, k \in 1..Len(rowPc) :
       /\ rowPc[j] = "returned" /\ newRow[j].processingStatus = "Fetched"
       /\ table[j].processingStatus = "To Process" /\ table[j].summary = Undefined
       /\ rowPc[k] = "summarize"

\* normalizeUrl has returned on its first / second application.
normalized(n) ==
  /\ request # Null
  /\ response # Null
  /\ request.fn = "normalizeUrl"
  /\ request.nth = n

\* C13: normalizeUrl applied to a text it returned returns that text.
C13_NormalizeIdempotent == normalized(2) => response.value = request.url

\* The input trimmed and in lower case, less one trailing slash, with
\* https:// in front unless it starts with http:// or https://.
Processed(s) ==
  LET t == toLowerCase(trim(s))
      u == IF t # <<>> /\ t[Len(t)] = "/" THEN SubSeq(t, 1, Len(t) - 1) ELSE t
  IN IF \/ Len(u) >= 7 /\ SubSeq(u, 1, 7) = HttpPrefix
        \/ Len(u) >= 8 /\ SubSeq(u, 1, 8) = HttpsPrefix
     THEN u
     ELSE HttpsPrefix \o u

\* The text is undefined, empty or made of spaces.
BlankText(s) == s = Undefined \/ \A i \in 1..Len(s) : s[i] = " "

\* C14: normalizeUrl returns undefined for an undefined, empty or blank
\* input and for an input whose processed form is no URL; for any other input
\* it returns the processed form.
C14_NormalizeResult ==
  normalized(1) =>
    response.value =
      (IF BlankText(request.url) \/ ~UrlParses(Processed(request.url))
       THEN Undefined
       ELSE Processed(request.url))

\* C14 witness: 'WWW.Foo.com/' has given 'https://www.foo.com'.
C14_Witness ==
  /\ normalized(1)
  /\ request.url = FooSite
  /\ response.value =
       <<"h", "t", "t", "p", "s", ":", "/", "/", "w", "w", "w", ".", "f", "o", "o", ".",
         "c", "o", "m">>

\* tableData has been built on the first / second processing of the file.
tabled(n) ==
  /\ request # Null
  /\ response # Null
  /\ request.fn = "tableData"
  /\ request.nth = n

\* The results the client holds for the row of index i.
Correlated(i) ==
  IF request.outcome.threw \/ request.sheet.data = <<>> THEN {}
  ELSE { request.outcome.results[n] : n \in
           {j \in 1..Len(request.outcome.results) :
              request.outcome.results[j].originalIndex = i} }

\* C12: the table does not depend on the order of the results: a reordered
\* response gives the same table, and the row of index i has the status and
\* the metadata of the result whose originalIndex is i, To Process without
\* metadata when there is none.
C12_TableIgnoresResultOrder ==
  /\ tabled(2) => response.value = request.first
  /\ (tabled(1) \/ tabled(2)) =>
       \A k \in 1..Len(response.value) :
         IF Correlated(k - 1) = {}
         THEN /\ response.value[k].processingStatus = "To Process"
              /\ NoSummaryFields(response.value[k])
         ELSE \A r \in Correlated(k - 1) :
                /\ response.value[k].processingStatus =
                     (IF r.matched THEN "Fetched" ELSE "To Process")
                /\ response.value[k].summary = r.metadata.summary
                /\ response.value[k].independenceCriteria = r.metadata.independenceCriteria
                /\ response.value[k].insufficientInformation =
                     r.metadata.insufficientInformation

\* C12 witness: the response lists the result of the second row before the
\* result of the first, one matched and one not, and the table is built.
C12_Witness ==
  /\ tabled(2)
  /\ Len(request.outcome.results) = 2
  /\ request.outcome.results[1].originalIndex = 1
  /\ request.outcome.results[2].originalIndex = 0
  /\ request.outcome.results[1].matched # request.outcome.results[2].matched
  /\ response.value[1].processingStatus # response.value[2].processingStatus

\* The cell of data row k in the column the mapping names, undefined when
\* the column is not detected, not in the sheet, or the row ends before it.
MappedCell(k, header) ==
  IF header = "" \/ \A c \in 1..Len(request.sheet.headers) : request.sheet.headers[c] # header
  THEN Undefined
  ELSE LET c == CHOOSE c \in 1..Len(request.sheet.headers) : request.sheet.headers[c] = header
       IN IF c <= Len(request.sheet.data[k]) THEN request.sheet.data[k][c] ELSE Undefined

\* C15: hasError of a row is true exactly when its company-name cell is
\* absent or blank or its website cell does not normalize, whatever the
\* reconciliation result for the row.
C15_HasErrorIffNameOrSiteBad ==
  tabled(1) =>
    \A k \in 1..Len(response.value) :
      response.value[k].hasError <=>
        \/ BlankText(MappedCell(k, request.mapped.companyName))
        \/ BlankText(MappedCell(k, request.mapped.website))
        \/ normalizeUrl(MappedCell(k, request.mapped.website)) = Undefined

\* C15 witness: a row whose name cell is made of spaces and whose website is
\* valid has hasError, under a result that matched it.
C15_Witness ==
  /\ tabled(1)
  /\ Len(response.value) = 1
  /\ request.sheet.data[1] = <<Spaces, US, SiteBare>>
  /\ request.mapped.companyName = "Company" /\ request.mapped.website = "Website"
  /\ ~request.outcome.threw
  /\ \E r \in Correlated(0) : r.matched
  /\ response.value[1].hasError
  /\ response.value[1].processingStatus = "Fetched"

\* C16: a row is Fetched exactly when the result correlated to it has
\* matched = true, and then it has the metadata of that result; with
\* matched = false, an error, no result, a rejected call or no row sent it
\* is To Process.
C16_FetchedIffMatched ==
  tabled(1) =>
    /\ Len(response.value) = Len(request.sheet.data)
    /\ \A k \in 1..Len(response.value) :
         /\ response.value[k].processingStatus \in {"Fetched", "To Process"}
         /\ response.value[k].processingStatus = "Fetched" <=>
              \E r \in Correlated(k - 1) : r.matched
         /\ \A r \in Correlated(k - 1) :
              r.matched =>
                /\ response.value[k].summary = r.metadata.summary
                /\ response.value[k].independenceCriteria = r.metadata.independenceCriteria
                /\ response.value[k].insufficientInformation =
                     r.metadata.insufficientInformation

\* C16 witness: of two rows one has a matched result and is Fetched with its
\* summary, the other has a result with an error and is To Process.
C16_Witness ==
  /\ tabled(1)
  /\ Len(response.value) = 2
  /\ \E r \in Correlated(1) : r.matched /\ response.value[2].summary = r.metadata.summary
  /\ response.value[2].processingStatus = "Fetched"
  /\ \E r \in Correlated(0) : r.error # Undefined
  /\ response.value[1].processingStatus = "To Process"

\* The three summary fields of a record.
SummaryFields(r) == <<r.summary, r.independenceCriteria, r.insufficientInformation>>

\* C17: a row whose scrape and summarize both succeeded resolves as Fetched
\* with the three fields of its own summarize response, the metadata passed
\* to the save call is these three fields, and the table of the finished run
\* shows the row so.
C17_FetchedWithOwnSummary ==
  runLogged =>
    \A k \in 1..Len(rowPc) :
      (calls[k] # <<>> /\ OwnSuccess(k)) =>
        /\ Len(calls[k]) = 3
        /\ calls[k][3].fn = "save"
        /\ SummaryFields(calls[k][3].arg.metadata) = SummaryFields(summarizeResult[k])
        /\ rowPc[k] = "returned" =>
             /\ newRow[k].processingStatus = "Fetched"
             /\ SummaryFields(newRow[k]) = SummaryFields(summarizeResult[k])
        /\ ~isAutoProcessing =>
             /\ table[k].processingStatus = "Fetched"
             /\ SummaryFields(table[k]) = SummaryFields(summarizeResult[k])

\* C17 witness: a finished run in which two rows succeeded with different
\* summaries, each row showing its own.
C17_Witness ==
  /\ runLogged
  /\ ~isAutoProcessing
  /\ \E j, k \in 1..Len(rowPc) :
       /\ calls[j] # <<>> /\ OwnSuccess(j)
       /\ calls[k] # <<>> /\ OwnSuccess(k)
       /\ summarizeResult[j].summary # summarizeResult[k].summary
       /\ table[j].summary = summarizeResult[j].summary
       /\ table[k].summary = summarizeResult[k].summary

\* C18: a run issues no call for a row that is Fetched or has hasError,
\* resolves it with the row as it is, counts it neither as success nor as
\* error, and the table of the finished run holds it unchanged.
C18_IneligibleRowsPassThrough ==
  [][/\ isAutoProcessing =>
          /\ \A k \in 1..Len(table) :
               ~isEligible(table[k]) =>
                 /\ calls[k] = <<>>
                 /\ scrapeResult[k] = NoResponse
                 /\ summarizeResult[k] = NoResponse
                 /\ saveResult[k] = NoResponse
                 /\ newRow[k] = table[k]
          /\ successCount + errorCount =
               Cardinality({k \in 1..Len(table) :
                              isEligible(table[k]) /\ rowPc[k] = "returned"})
     /\ (isAutoProcessing /\ processedData' # Null) =>
          \A k \in 1..Len(table) :
            ~isEligible(table[k]) => processedData'.tableData[k] = table[k]]_vars

\* C18 witness: a finished run reported one success and no error on a table
\* holding a Fetched row and a hasError row for which it issued no call.
C18_Witness ==
  /\ runLogged
  /\ toasts = <<CompleteToast(1, 0)>>
  /\ Len(table) = 3
  /\ \E k \in 1..Len(table) :
       calls[k] = <<>> /\ table[k].hasError /\ table[k].processingStatus = "To Process"
  /\ \E k \in 1..Len(table) :
       calls[k] = <<>> /\ ~table[k].hasError /\ table[k].processingStatus = "Fetched"

\* The fields of a row that row extraction sets.
ExtractionFields(row) == <<row.id, row.values, row.hasError>>

\* C19: the table that processFile sets has, for every row, the id, the
\* display values and the hasError flag that row extraction computes from
\* the file, and no later step changes them, in the table or in the rows a
\* run resolves with: a hasError flag is never cleared.
C19_ExtractionFieldsKept ==
  [][/\ (processedData = Null /\ processedData' # Null) =>
          /\ Len(processedData'.tableData) = Len(file.data)
          /\ \A k \in 1..Len(file.data) :
               ExtractionFields(processedData'.tableData[k]) =
                 ExtractionFields(tableRow(file, processedData'.mappedHeaders, <<>>, k))
     /\ (processedData # Null /\ processedData' # Null) =>
          /\ Len(processedData'.tableData) = Len(table)
          /\ \A k \in 1..Len(table) :
               /\ ExtractionFields(processedData'.tableData[k]) = ExtractionFields(table[k])
               /\ rowPc' # <<>> => ExtractionFields(newRow'[k]) = ExtractionFields(table[k])]_vars

\* C19 witness: a run has finished that enriched a row whose website cell
\* was replaced at extraction, on a table that holds a hasError row.
C19_Witness ==
  /\ runLogged
  /\ ~isAutoProcessing
  /\ \E k \in 1..Len(table) :
       /\ Len(calls[k]) = 3
       /\ table[k].processingStatus = "Fetched"
       /\ ~table[k].hasError
       /\ table[k].values # file.data[k]
  /\ \E k \in 1..Len(table) : table[k].hasError /\ calls[k] = <<>>

\* The query has a field that is present once normalized, so that a store
\* query is issued for it.
Queried(query) ==
  \/ query.companyName # Undefined /\ toLowerCase(trim(query.companyName)) # <<>>
  \/ query.country # Undefined /\ toLowerCase(trim(query.country)) # <<>>
  \/ query.website # Undefined /\ normalizeUrl(query.website) # Undefined

\* C20: when the store query of one identity rejects, the call still returns
\* one result per identity: the result of that identity is unmatched with an
\* error message, and every other identity has the result its own lookup
\* gives on the store, matched with the metadata of a qualifying document or
\* unmatched, without error.
C20_QueryFailureIsPerIdentity ==
  checkAnswered =>
    /\ ~response.threw
    /\ Len(response.results) = Len(request.data)
    /\ \A k \in 1..Len(request.data) :
         LET query == request.data[k]
             result == response.results[k]
         IN /\ result.originalIndex = query.originalIndex
            /\ IF query.originalIndex \in request.failing /\ Queried(query)
               THEN /\ ~result.matched
                    /\ result.error = ErrorText
                    /\ result.metadata = NoMetadata
               ELSE /\ result.error = Undefined
                    /\ result.matched <=> HoldsMatch(query)
                    /\ IF result.matched
                       THEN \E n \in 1..Len(db) :
                              /\ clock - db[n].timestamp <= SixMonths
                              /\ Cardinality(AgreeingFields(query, db[n])) >= 2
                              /\ result.metadata = db[n].metadata
                       ELSE result.metadata = NoMetadata

\* C20 witness: in a batch of two the store query of the first identity
\* rejected; its result carries the error and the second identity is matched.
C20_Witness ==
  /\ checkAnswered
  /\ Len(request.data) = 2
  /\ request.failing = {0}
  /\ HoldsMatch(request.data[1])
  /\ ~response.results[1].matched
  /\ response.results[1].error # Undefined
  /\ response.results[2].matched
  /\ response.results[2].error = Undefined

\* The text an export emits for a summary field: '' when the field is missing.
Emitted(v) == IF v = Undefined THEN <<>> ELSE v

\* C21: a written export holds exactly one record per table row with
\* hasError = false, whatever the row's processingStatus, in the order of
\* the table; the records are numbered 1, 2, ..., n after filtering, and a
\* missing summary, independenceCriteria or insufficientInformation is
\* emitted as the empty text.
C21_ExportOnePerGoodRow ==
  written # Null =>
    LET records == written.records
    IN /\ Len(records) = Cardinality({k \in 1..Len(table) : ~table[k].hasError})
       /\ \A n \in 1..Len(records) : records[n].sno = n
       /\ \A k \in 1..Len(table) :
            ~table[k].hasError =>
              LET n == Cardinality({j \in 1..k : ~table[j].hasError})
              IN /\ records[n].rowId = table[k].id
                 /\ records[n].overview = Emitted(table[k].summary)
                 /\ records[n].independenceCriteria = Emitted(table[k].independenceCriteria)
                 /\ records[n].insufficientInformation =
                      Emitted(table[k].insufficientInformation)

\* C21 witness: a file written from a table whose first row has an error:
\* the records of a Fetched row with its overview and of a To Process row
\* without any, numbered otherwise than their rows.
C21_Witness ==
  /\ written # Null
  /\ table[1].hasError
  /\ \E n, m \in 1..Len(written.records) :
       /\ n < m
       /\ written.records[n].sno # written.records[n].rowId + 1
       /\ \E k \in 1..Len(table) :
            /\ table[k].id = written.records[n].rowId
            /\ table[k].processingStatus = "Fetched"
            /\ written.records[n].overview = Overview
       /\ \E k \in 1..Len(table) :
            /\ table[k].id = written.records[m].rowId
            /\ table[k].processingStatus = "To Process"
            /\ table[k].summary = Undefined
            /\ written.records[m].overview = <<>>

\* The step is a call of handleExportResults that returns.
ExportStep ==
  /\ request.fn = "handleExportResults"
  /\ response = Null
  /\ response' # Null

\* C22: an export requested while no row of the table has hasError = false
\* writes no file, leaves the session free of the error state, ends with
\* the exporting flag released, leaves the table as it was and reports that
\* there is nothing to export.
C22_EmptyExportIsNoOp ==
  [][(/\ ExportStep
      /\ processedData # Null
      /\ \A k \in 1..Len(table) : table[k].hasError)
       => /\ written' = Null
          /\ error' = ""
          /\ ~isExporting'
          /\ processedData' = processedData
          /\ toasts' = <<Toast("No Data to Export", <<>>)>>]_vars

\* C22 witness: the handler has returned on a table of MaxBatch rows that
\* all have an error, one of them Fetched, having reported nothing to export.
C22_Witness ==
  /\ request.fn = "handleExportResults"
  /\ response # Null
  /\ Len(table) = MaxBatch
  /\ \A k \in 1..Len(table) : table[k].hasError
  /\ \E k \in 1..Len(table) : table[k].processingStatus = "Fetched"
  /\ toasts = <<Toast("No Data to Export", <<>>)>>
  /\ written = Null

\* The display value of row k (one-based) of the built table in the column
\* of the mapped website header.
DisplayedWebsite(k) ==
  LET c == CHOOSE c \in 1..Len(request.sheet.headers) :
             request.sheet.headers[c] = request.mapped.website
  IN response.value[k].values[c]

\* C23: for every row whose website cell normalizes, the website entry of
\* the row's display values equals the normalized form of the cell, also
\* when the two differ by letter case or surrounding blanks only.
C23_DisplayedWebsiteIsNormalized ==
  tabled(1) =>
    \A k \in 1..Len(response.value) :
      LET cell == MappedCell(k, request.mapped.website)
      IN (cell # Undefined /\ normalizeUrl(cell) # Undefined) =>
           DisplayedWebsite(k) = normalizeUrl(cell)

\* The names of the calls processFile has made for the selected file.
FileFns == FnNames(fileCalls)

\* The selected file has no header.
Headerless == file # Null /\ Len(file.headers) = 0

\* C24: for an uploaded file without headers processFile calls the parser
\* only, never the header mapping or the reconciliation, builds no table
\* and keeps no mapping, and ends with the error set and the loading flag
\* released.
C24_NoHeadersIsFatal ==
  Headerless =>
    /\ FileFns = <<"parseXLSX">>
    /\ pfPc \in {"parseXLSX", "idle"}
    /\ processedData = Null
    /\ detectedHeaders = Null
    /\ pfPc = "idle" => error # "" /\ ~isLoading

\* C24 witness: the parser has returned the sheet without headers and
\* processFile has ended with its message for an empty file.
C24_Witness ==
  /\ Headerless
  /\ pfPc = "idle"
  /\ error = "The uploaded file seems to be empty"
  /\ ~isLoading
  /\ processedData = Null

\* No row promise of a run of handleAutoProcess is pending.
NoneInFlight ==
  /\ ~isAutoProcessing
  /\ \A k \in 1..Len(rowPc) : rowPc[k] = "returned"

\* C25: the selected file changes only while no run and no processFile is
\* in flight, and the table is dropped in that step; after 'process another
\* file' the session holds no file, no table, no error and no flag, and
\* nothing of a run; a run in flight is one on the table of the selected
\* file; the table set by processFile has, row by row, the id, values and
\* hasError extracted from the selected file, and the end of a run keeps
\* them.
C25_NewFileStartsClean ==
  [][/\ file' # file =>
          /\ NoneInFlight
          /\ pfPc = "idle"
          /\ processedData' = Null
          /\ error' = ""
          /\ ~isExporting' /\ ~isAutoProcessing'
          /\ rowPc' = <<>> /\ newRow' = <<>>
     /\ (file # Null /\ file' = Null) =>
          /\ ~isLoading'
          /\ pfPc' = "idle"
          /\ detectedHeaders' = Null
          /\ successCount' = 0 /\ errorCount' = 0
     /\ isAutoProcessing =>
          /\ file' = file
          /\ processedData # Null
          /\ pfPc = "idle"
          /\ Len(newRow) = Len(file.data)
     /\ (processedData = Null /\ processedData' # Null) =>
          /\ file' = file
          /\ processedData'.originalHeaders = file.headers
          /\ Len(processedData'.tableData) = Len(file.data)
          /\ \A k \in 1..Len(file.data) :
               ExtractionFields(processedData'.tableData[k]) =
                 ExtractionFields(tableRow(file, processedData'.mappedHeaders, <<>>, k))
     /\ (processedData # Null /\ processedData' # Null) =>
          /\ file' = file
          /\ processedData'.originalHeaders = file.headers
          /\ Len(processedData'.tableData) = Len(file.data)
          /\ \A k \in 1..Len(file.data) :
               ExtractionFields(processedData'.tableData[k]) = ExtractionFields(table[k])]_vars

\* C25 witness: 'process another file' can be clicked in a session that
\* holds a table of MaxRows rows enriched by a finished run, the counts and
\* resolved rows of that run, a written file's failure as error and a toast.
C25_Witness ==
  /\ processedData # Null
  /\ Len(table) = MaxRows
  /\ error = "Export error"
  /\ rowPc # <<>>
  /\ NoneInFlight
  /\ successCount > 0 /\ errorCount > 0
  /\ \E k \in 1..Len(table) :
       table[k].processingStatus = "Fetched" /\ Len(calls[k]) = 3
  /\ toasts # <<>>
  /\ ENABLED handleProcessAnotherFile

\* The calls of the reconciliation callable made for the selected file.
CheckCalls == {n \in 1..Len(fileCalls) : fileCalls[n].fn = "checkForExistingCompanies"}

\* C26: for each uploaded file the reconciliation callable is called at most
\* once, with one identity per data row; while the call is pending there is
\* no table, so no row has a processingStatus and nothing is shown but the
\* loading indicator; a table exists only once processFile has ended, after
\* the one call when the sheet has data rows and without any call otherwise.
C26_OneCheckBeforeTable ==
  /\ Cardinality(CheckCalls) <= 1
  /\ \A n \in CheckCalls : n = Len(fileCalls) /\ Len(fileCalls[n].arg) = Len(file.data)
  /\ pfPc = "check" => CheckCalls # {} /\ processedData = Null /\ isLoading
  /\ processedData # Null =>
       /\ pfPc = "idle"
       /\ CheckCalls # {} <=> Len(file.data) > 0

\* C26 witness: the table of a sheet of MaxRows rows is shown after the one
\* call, which rejected: the warning was given and every row is To Process.
C26_Witness ==
  /\ processedData # Null
  /\ ~isLoading
  /\ Len(table) = MaxRows
  /\ Cardinality(CheckCalls) = 1
  /\ toasts = <<Toast("Database Check Error", <<>>), Toast("File Processed", <<>>)>>
  /\ \A k \in 1..Len(table) : table[k].processingStatus = "To Process"

\* The calls of detectHeaders made for the selected file.
MapCalls == {n \in 1..Len(fileCalls) : fileCalls[n].fn = "detectHeaders"}

\* processFile has ended for the selected file.
FileDone == file # Null /\ pfPc = "idle"

\* C27: detectHeaders is called exactly once for every uploaded file, and
\* the mapping it returned is the one kept with the table.
C27_MappedExactlyOncePerFile ==
  /\ FileDone => Cardinality(MapCalls) = 1
  /\ processedData # Null => processedData.mappedHeaders \in HeaderMappings

\* C27, amended: detectHeaders is called at most once per uploaded file:
\* once, with the headers of the sheet, for every file that gets as far as
\* a table, and never for a file the parser rejects or returns without
\* headers; the mapping it returned is used for the reconciliation and kept
\* with the table, and no later step (run or export) calls it again or
\* changes the mapping.
C27_MappedAtMostOncePerFile ==
  [][/\ Cardinality(MapCalls) <= 1
     /\ \A n \in MapCalls : fileCalls[n].arg = file.headers /\ Len(file.headers) > 0
     /\ pfPc \in {"detectHeaders", "check"} => Cardinality(MapCalls) = 1
     /\ processedData # Null => Cardinality(MapCalls) = 1
     /\ (FileDone /\ MapCalls = {}) =>
          /\ processedData = Null
          /\ error # ""
     /\ (pfPc = "check" /\ processedData' # Null) =>
          processedData'.mappedHeaders = detectedHeaders
     /\ (processedData # Null /\ processedData' # Null) =>
          /\ processedData'.mappedHeaders = processedData.mappedHeaders
          /\ fileCalls' = fileCalls]_vars

\* C27 witness: a file was written after a finished run on a table of
\* MaxRows rows; detectHeaders was called once, when the file was processed.
C27_Witness ==
  /\ processedData # Null
  /\ Len(table) = MaxRows
  /\ written # Null
  /\ rowPc # <<>>
  /\ \E k \in 1..Len(table) : Len(calls[k]) = 3
  /\ Cardinality(MapCalls) = 1
  /\ FnNames(fileCalls) = <<"parseXLSX", "detectHeaders", "checkForExistingCompanies">>

\* The field of an identity record for a given cell: absent for a cell that
\* is missing, empty or blank, the trimmed cell otherwise.
FieldFor(cell) ==
  IF cell = Undefined \/ trim(cell) = <<>> THEN Undefined ELSE trim(cell)

\* C28: in the identity records sent to the reconciliation a field is
\* absent when its cell is empty or blank or its mapped header is empty or
\* not among the sheet's headers, and is the trimmed cell, never the empty
\* text, otherwise.
C28_BlankFieldsAbsent ==
  tabled(1) =>
    \A k \in 1..Len(response.sent) :
      /\ response.sent[k].companyName = FieldFor(MappedCell(k, request.mapped.companyName))
      /\ response.sent[k].country = FieldFor(MappedCell(k, request.mapped.country))
      /\ response.sent[k].website = FieldFor(MappedCell(k, request.mapped.website))
      /\ response.sent[k].companyName # <<>>
      /\ response.sent[k].country # <<>>
      /\ response.sent[k].website # <<>>

\* C29: whenever there is a table it has one row per data row of the sheet
\* of the selected file, and the row at position i (from 0) has the id of
\* index i; so have the rows a run has resolved or will resolve with: no
\* step reorders, drops or duplicates rows.
C29_OneRowPerDataRowInOrder ==
  processedData # Null =>
    /\ Len(table) = Len(file.data)
    /\ \A k \in 1..Len(table) : table[k].id = k - 1
    /\ rowPc # <<>> =>
         /\ Len(newRow) = Len(file.data)
         /\ Len(rowPc) = Len(file.data)
         /\ \A k \in 1..Len(newRow) : newRow[k].id = k - 1

\* C29 witness: the table of a sheet of MaxRows rows after a run has ended:
\* a row with an error first, then a row the run fetched, then a row whose
\* scrape failed and which is still To Process.
C29_Witness ==
  /\ processedData # Null
  /\ Len(table) = MaxRows
  /\ ~isAutoProcessing
  /\ rowPc # <<>>
  /\ \A k \in 1..Len(rowPc) : rowPc[k] = "returned"
  /\ table[1].hasError
  /\ table[2].processingStatus = "Fetched" /\ Len(calls[2]) = 3
  /\ table[3].processingStatus = "To Process" /\ ~table[3].hasError
  /\ Len(calls[3]) = 1
  /\ successCount >= 1 /\ errorCount >= 1

\* Row k of the table is eligible and has no website value: the website
\* header is unknown, or the row's cell in that column is missing or empty.
Unsited(k) ==
  /\ isEligible(table[k])
  /\ ~Truthy(websiteOf(processedData, table[k]))

\* The rows of the logged run that made a call and did not end Fetched.
PipelineFailures ==
  {k \in 1..Len(rowPc) :
     rowPc[k] = "returned" /\ calls[k] # <<>> /\ newRow[k].processingStatus # "Fetched"}

\* C30: in a run, an eligible row without a website value is returned at
\* once: no call is made for it, it resolves with the row itself, still To
\* Process, and it adds one to errorCount, the counter of the rows whose
\* pipeline failed: the run reports the sum of both.
C30_NoWebsiteIsSkippedAndCounted ==
  runLogged =>
    /\ \A k \in 1..Len(table) :
         Unsited(k) =>
           /\ calls[k] = <<>>
           /\ scrapeResult[k] = NoResponse
           /\ summarizeResult[k] = NoResponse
           /\ saveResult[k] = NoResponse
           /\ rowPc[k] = "returned"
           /\ newRow[k] = table[k]
           /\ newRow[k].processingStatus = "To Process"
    /\ errorCount =
         Cardinality({k \in 1..Len(table) : Unsited(k)}) + Cardinality(PipelineFailures)
    /\ \A n \in 1..Len(toasts) :
         toasts[n].title = "Auto Processing Complete" =>
           toasts[n].description = <<successCount, errorCount>>

\* C30 witness: a run has ended on a table of two eligible rows, the first
\* with an empty website value and skipped, the second with a website whose
\* scrape failed: 0 successes and 2 errors are reported.
C30_Witness ==
  /\ runLogged
  /\ ~isAutoProcessing
  /\ Len(table) = 2
  /\ Unsited(1)
  /\ websiteOf(processedData, table[1]) = <<>>
  /\ calls[1] = <<>>
  /\ ~Unsited(2)
  /\ Len(calls[2]) = 1
  /\ table[2].processingStatus = "To Process"
  /\ toasts = <<Toast("Auto Processing Complete", <<0, 2>>)>>

\* summarizeCompanyContent has returned a success.
Summarized ==
  /\ request.fn = "summarizeCompanyContent"
  /\ response # Null
  /\ ~response.value.threw
  /\ response.value.status = "success"

\* C31: every successful result of summarizeCompanyContent whose summary is
\* the unusable-content sentence has insufficientInformation "Yes",
\* whatever the prompt returned for that field.
C31_SentinelForcesInsufficient ==
  (Summarized /\ response.value.summary = UNUSABLE_CONTENT_RESPONSE) =>
    response.value.insufficientInformation = Yes

\* C31 restricted to the flow with the three output fields.
C31_ForcedByThreeFieldFlow ==
  (Summarized /\ request.flow = "three fields"
     /\ response.value.summary = UNUSABLE_CONTENT_RESPONSE) =>
    response.value.insufficientInformation = Yes

\* A step in which a saveCompanyEntry call returns or throws.
SaveStep ==
  /\ request # Null /\ request.fn = "saveCompanyEntry"
  /\ response = Null /\ response' # Null

\* The normalized form of a supplied field, absent when it is empty.
NormalizedName(v) ==
  IF v # Undefined /\ v # <<>> /\ toLowerCase(trim(v)) # <<>>
  THEN toLowerCase(trim(v)) ELSE Undefined
NormalizedSite(v) ==
  IF normalizeUrlInternal(v) # Undefined /\ normalizeUrlInternal(v) # <<>>
  THEN normalizeUrlInternal(v) ELSE Undefined

NoneNormalizes(data) ==
  /\ NormalizedName(data.companyName) = Undefined
  /\ NormalizedName(data.country) = Undefined
  /\ NormalizedSite(data.website) = Undefined

\* The step adds exactly one record, holding the normalized fields of data.
AddsNormalizedRecord(data) ==
  /\ Len(db') = Len(db) + 1
  /\ SubSeq(db', 1, Len(db)) = db
  /\ db'[Len(db')].normalizedCompanyName = NormalizedName(data.companyName)
  /\ db'[Len(db')].normalizedCountry = NormalizedName(data.country)
  /\ db'[Len(db')].website = NormalizedSite(data.website)

\* C32 as stated: saveCompanyEntry throws invalid-argument and adds no record
\* exactly when none of companyName, country and website normalizes to a
\* non-empty value; otherwise it adds exactly one record with the
\* normalized fields.
C32_InvalidOrOneRecord ==
  [][SaveStep =>
       IF NoneNormalizes(request.data)
       THEN response'.threw /\ response'.code = "invalid-argument" /\ db' = db
       ELSE response'.code # "invalid-argument" /\ AddsNormalizedRecord(request.data)]_vars

\* C32, amended: saveCompanyEntry throws invalid-argument and adds no record
\* exactly when none of companyName, country and website normalizes to a
\* non-empty value; otherwise it either returns having added exactly one
\* record with the normalized fields, each present only when non-empty, or
\* throws internal having added none because the store rejected the write.
C32_InvalidOrOneRecordUnlessAddFails ==
  [][SaveStep =>
       IF NoneNormalizes(request.data)
       THEN response'.threw /\ response'.code = "invalid-argument" /\ db' = db
       ELSE \/ ~response'.threw /\ AddsNormalizedRecord(request.data)
            \/ response'.threw /\ response'.code = "internal" /\ db' = db]_vars

\* A call with spaces for a name, no country and an upper-case address has
\* returned with one record holding the normalized website alone.
C32_Witness ==
  /\ request # Null /\ request.fn = "saveCompanyEntry"
  /\ request.data.companyName = Spaces
  /\ request.data.country = Undefined
  /\ request.data.website = SiteUpper
  /\ response # Null /\ ~response.threw
  /\ Len(db) = 1
  /\ db[1].normalizedCompanyName = Undefined
  /\ db[1].normalizedCountry = Undefined
  /\ db[1].website = normalizeUrlInternal(SiteUpper)

\* The step in which a run ends: Promise.all has resolved.
RunEnds == isAutoProcessing /\ ~isAutoProcessing' /\ processedData # Null

\* C33: while a run is in flight the two counters together count the
\* eligible rows whose callback has returned, whatever the order in which
\* the callbacks resumed; when the run ends, successCount + errorCount is the
\* number of rows that were eligible at dispatch, successCount is the number
\* of rows that went from To Process to Fetched in the run, and these are
\* the counts reported.
C33_CountsCoverEligibleRows ==
  [][/\ isAutoProcessing =>
          successCount + errorCount =
            Cardinality({k \in 1..Len(table) : isEligible(table[k]) /\ rowPc[k] = "returned"})
     /\ RunEnds =>
          LET before == processedData.tableData
              after == processedData'.tableData
          IN /\ Len(after) = Len(before)
             /\ successCount + errorCount =
                  Cardinality({k \in 1..Len(before) : isEligible(before[k])})
             /\ successCount =
                  Cardinality({k \in 1..Len(before) :
                                 /\ before[k].processingStatus = "To Process"
                                 /\ after[k].processingStatus = "Fetched"})
             /\ toasts' = <<Toast("Auto Processing Complete", <<successCount, errorCount>>)>>]_vars

\* C33 witness: a run over three eligible rows has ended with the first
\* and the third row Fetched and the second failed: 2 and 1 are reported.
C33_Witness ==
  /\ runLogged
  /\ ~isAutoProcessing
  /\ Len(table) = 3
  /\ \A k \in 1..3 : calls[k] # <<>>
  /\ table[1].processingStatus = "Fetched"
  /\ table[2].processingStatus = "To Process"
  /\ table[3].processingStatus = "Fetched"
  /\ successCount = 2
  /\ errorCount = 1
  /\ toasts = <<Toast("Auto Processing Complete", <<2, 1>>)>>

\* The step in which processFile builds the table from the answer of the
\* reconciliation call.
Reconciled == pfPc = "check" /\ processedData' # Null

\* The store holds a document, created within the last six months, that is
\* what saveCompanyEntry stores for this row of the table after its
\* enrichment.
PersistedFor(pd, row) ==
  \E j \in 1..Len(db), summarized \in SummarizeResponses :
    /\ withinSixMonths(db[j], clock)
    /\ ~summarizeFailed(summarized)
    /\ db[j] = companyData(companyDataForSave(pd, row, summarized), db[j].timestamp)

\* C34: when a sheet is uploaded and the store holds, from within the last
\* six months, the document that the enrichment of one of its rows saved,
\* the reconciliation reports that row as matched: it is Fetched and is not
\* enriched again.
C34_SavedRowIsMatchedOnReupload ==
  [][Reconciled =>
       \A k \in 1..Len(processedData'.tableData) :
         LET row == processedData'.tableData[k]
         IN (~row.hasError /\ PersistedFor(processedData', row)) =>
              row.processingStatus = "Fetched"]_vars

\* As C34, for the rows whose website cell does not end in two slashes.
C34_SavedRowIsMatchedUnlessSlashes ==
  [][Reconciled =>
       \A k \in 1..Len(processedData'.tableData) :
         LET row == processedData'.tableData[k]
         IN (~row.hasError /\ PersistedFor(processedData', row)
               /\ file.data[k][3] # SiteSlashes) =>
              row.processingStatus = "Fetched"]_vars

\* The name and the website cell of a display row, at the mapped columns.
NameCell(pd, row) ==
  At(row.values, headerIdx(pd.originalHeaders, pd.mappedHeaders.companyName))

\* saveCompanyEntry would reject the data: no field is there.
AllAbsent(data) ==
  ~Truthy(data.companyName) /\ ~Truthy(data.country) /\ ~Truthy(data.website)

\* C35: in every table, also while and after runs replace it, a row with
\* hasError = false has a non-empty website value and a non-empty company
\* name at the mapped columns; so no run takes the missing-website branch
\* (every eligible row starts with a scrape call) and no save call carries
\* data without name, country and website.
C35_ErrorFreeRowsHaveNameAndWebsite ==
  /\ processedData # Null =>
       \A k \in 1..Len(table) :
         ~table[k].hasError =>
           /\ Truthy(websiteOf(processedData, table[k]))
           /\ Truthy(NameCell(processedData, table[k]))
  /\ runLogged =>
       \A k \in 1..Len(rowPc) :
         /\ (isAutoProcessing /\ isEligible(table[k])) => calls[k] # <<>>
         /\ (calls[k] = <<>> /\ rowPc[k] = "returned") => newRow[k] = table[k]
         /\ \A n \in 1..Len(calls[k]) :
              calls[k][n].fn = "save" =>
                /\ ~AllAbsent(calls[k][n].arg)
                /\ Truthy(calls[k][n].arg.companyName)
                /\ Truthy(calls[k][n].arg.website)

\* C35 witness: a run has issued the save call of an error-free row whose
\* country cell is blank and whose website is displayed as it was typed.
C35_Witness ==
  /\ runLogged
  /\ Len(table) = 1
  /\ ~table[1].hasError
  /\ file.data[1] = <<Acme, Blank, SiteUpper>>
  /\ Len(calls[1]) = 3
  /\ calls[1][3].fn = "save"
  /\ calls[1][3].arg.country = Blank
  /\ calls[1][3].arg.website = SiteUpper

\* The run has ended: the table is the one the run resolved with, the counts
\* are reported, and the export and 'process another file' buttons are
\* enabled again.
RunConcluded ==
  /\ ~isAutoProcessing
  /\ processedData # Null
  /\ table = newRow
  /\ toasts = <<Toast("Auto Processing Complete", <<successCount, errorCount>>)>>
  /\ ~isLoading /\ ~isExporting
  /\ exportable(table) # {}

\* processFile has ended: with a table, or with the error of a sheet without
\* headers or of a thrown exception.
FileConcluded ==
  /\ ~isLoading
  /\ pfPc = "idle"
  /\ processedData # Null \/ error # ""

\* C36: when every awaited call settles, a run in flight leads to its end
\* (table replaced, counts reported, isAutoProcessing false, buttons enabled
\* again), and a processFile in flight leads to isLoading false, with a
\* table or with an error.
C36_LocksAreReleased ==
  /\ isAutoProcessing ~> RunConcluded
  /\ isLoading ~> FileConcluded

\* C36 witness: a run in which a scrape call threw and another row was
\* saved has ended.
C36_Witness ==
  /\ RunConcluded
  /\ runLogged
  /\ \E k \in 1..Len(rowPc) : scrapeResult[k].threw
  /\ \E k \in 1..Len(rowPc) : saveResult[k] # NoResponse

==========================================================================
